---- MODULE Spec2Model ----
(***************************************************************************)
(* Model of the listing-text extraction engine of src/shared/parser.ts     *)
(* (parseMessage and its helpers, lines 1-424).                            *)
(*                                                                         *)
(* A JavaScript string is modelled as a tuple of one-character strings;    *)
(* the state variables hold TLC strings (Str / Chars convert).  A regular  *)
(* expression of the source is written as a syntax tree (Chr, Lit, Cat,    *)
(* Alt, Rep, Grp, WB, ...) that mirrors the regex literal, and is run by   *)
(* one backtracking matcher (M) with ECMAScript's priorities: alternatives *)
(* left to right, greedy quantifiers, first match position wins.           *)
(***************************************************************************)
EXTENDS Integers, Sequences, FiniteSets, TLC

VARIABLES
  pc,                \* "idle" | "done": no call running / a call has returned
  op,                \* name of the function the last call ran
  arg,               \* the parts the input text was built from
  input,             \* input string (text) of the last call
  optStyle,          \* opts.blockOutputStyle of the last call ("" = omitted)
  out,               \* ParsedResult of the last parseMessage call
  ret,               \* return value of the last helper call
  phoneReLastIndex,  \* phoneRe.lastIndex (module-level /g regex, line 165)
  priceReLastIndex,  \* priceRe.lastIndex (module-level /g regex, line 167)
  plotCtxLastIndex,  \* lastIndex the last parsePrice left in its plotCtxRe
  memo,              \* an earlier parseMessage call, remembered with its result
  ncalls,            \* number of parseMessage calls made so far
  payments,          \* table payments: verification_status of the row with id i
  user_devices,      \* table user_devices: its rows in the order of insertion
  otps,              \* table otps: the users (emails) that hold a valid code
  reqs               \* the HTTP requests received so far, each with its position

\* the tables of the database and the requests of the server part
server == <<payments, user_devices, otps, reqs>>

vars == <<pc, op, arg, input, optStyle, out, ret, phoneReLastIndex,
          priceReLastIndex, plotCtxLastIndex, memo, ncalls, payments, user_devices, otps, reqs>>

-----------------------------------------------------------------------------
(* JavaScript strings *)

Chars(s) == [i \in 1..Len(s) |-> SubSeq(s, i, i)]

RECURSIVE StrRange(_, _, _)
StrRange(cs, lo, hi) ==
  IF lo > hi THEN ""
  ELSE IF lo = hi THEN cs[lo]
  ELSE StrRange(cs, lo, (lo + hi) \div 2) \o StrRange(cs, (lo + hi) \div 2 + 1, hi)
Str(cs) == StrRange(cs, 1, Len(cs))

UpperChars == Chars("ABCDEFGHIJKLMNOPQRSTUVWXYZ")
LowerChars == Chars("abcdefghijklmnopqrstuvwxyz")
DigitChars == Chars("0123456789")

Range(f) == {f[i] : i \in DOMAIN f}
Digits == Range(DigitChars)
UpperSet == Range(UpperChars)
LowerSet == Range(LowerChars)
Letters == UpperSet \cup LowerSet
WordChars == Letters \cup Digits \cup {"_"}
Spaces == {" ", "\t", "\n", "\r", "\f"}

LowerMap == [c \in UpperSet |-> LowerChars[CHOOSE i \in 1..26 : UpperChars[i] = c]]
UpperMap == [c \in LowerSet |-> UpperChars[CHOOSE i \in 1..26 : LowerChars[i] = c]]
DigitVal == [c \in Digits |-> (CHOOSE i \in 1..10 : DigitChars[i] = c) - 1]

toLowerCase(cs) == [i \in 1..Len(cs) |-> IF cs[i] \in UpperSet THEN LowerMap[cs[i]] ELSE cs[i]]
toUpperCase(cs) == [i \in 1..Len(cs) |-> IF cs[i] \in LowerSet THEN UpperMap[cs[i]] ELSE cs[i]]

slice(cs, from) == SubSeq(cs, from + 1, Len(cs))
startsWith(cs, p) == Len(cs) >= Len(p) /\ SubSeq(cs, 1, Len(p)) = p

RECURSIVE trimStart(_)
trimStart(cs) == IF cs # <<>> /\ Head(cs) \in Spaces THEN trimStart(Tail(cs)) ELSE cs
RECURSIVE trimEnd(_)
trimEnd(cs) ==
  IF cs # <<>> /\ cs[Len(cs)] \in Spaces THEN trimEnd(SubSeq(cs, 1, Len(cs) - 1)) ELSE cs
trim(cs) == trimEnd(trimStart(cs))

\* s.indexOf(p): 0-based position of the first occurrence, -1 if none
indexOf(cs, p) ==
  LET hits == {i \in 1..(Len(cs) - Len(p) + 1) : SubSeq(cs, i, i + Len(p) - 1) = p}
  IN IF hits = {} THEN -1 ELSE (CHOOSE i \in hits : \A j \in hits : i <= j) - 1
includes(cs, p) == indexOf(cs, p) # -1

\* s.split(sep) for a one-character separator
RECURSIVE split(_, _)
split(cs, sep) ==
  LET hits == {i \in 1..Len(cs) : cs[i] = sep}
  IN IF hits = {} THEN <<cs>>
     ELSE LET i == CHOOSE h \in hits : \A j \in hits : h <= j
          IN <<SubSeq(cs, 1, i - 1)>> \o split(SubSeq(cs, i + 1, Len(cs)), sep)

RECURSIVE join(_, _)
join(parts, sep) ==
  IF parts = <<>> THEN <<>>
  ELSE IF Len(parts) = 1 THEN parts[1]
  ELSE parts[1] \o sep \o join(Tail(parts), sep)

\* the concatenation of F(lo), ..., F(hi)
RECURSIVE ConcatMap(_, _, _)
ConcatMap(F(_), lo, hi) ==
  IF lo > hi THEN <<>>
  ELSE IF lo = hi THEN F(lo)
  ELSE ConcatMap(F, lo, (lo + hi) \div 2) \o ConcatMap(F, (lo + hi) \div 2 + 1, hi)

SelectChars(cs, set) ==
  ConcatMap(LAMBDA i : IF cs[i] \in set THEN <<cs[i]>> ELSE <<>>, 1, Len(cs))

-----------------------------------------------------------------------------
(* JavaScript regular expressions.  Positions are 0-based string indexes,  *)
(* as in m.index and lastIndex.  A pattern compiled with the i flag is     *)
(* written in lower case and run on the lower-cased text (ExecI).          *)

Chr(set) == [t |-> "chr", set |-> set]
Cat(xs) == [t |-> "seq", xs |-> xs]
Alt(xs) == [t |-> "alt", xs |-> xs]
Rep(x, lo, hi) == [t |-> "rep", x |-> x, lo |-> lo, hi |-> hi]   \* x{lo,hi}, hi = -1: no limit
Opt(x) == Rep(x, 0, 1)
Star(x) == Rep(x, 0, -1)
Plus(x) == Rep(x, 1, -1)
Grp(n, x) == [t |-> "grp", n |-> n, x |-> x]     \* capturing group number n
WB == [t |-> "wb"]                               \* \b
Ahead(x) == [t |-> "la", x |-> x]                \* (?=x)
NotAhead(x) == [t |-> "nla", x |-> x]            \* (?!x)
Bol == [t |-> "bol"]                             \* ^ under the m flag
Bos == [t |-> "bos"]                             \* ^
Eos == [t |-> "eos"]                             \* $
Lit(str) == [t |-> "lit", cs |-> Chars(str)]       \* a literal string
LitChars(cs) == [t |-> "lit", cs |-> cs]
CI(set) == {IF c \in UpperSet THEN LowerMap[c] ELSE c : c \in set}

MaxGroups == 3
NoGroup == [set |-> FALSE, b |-> 0, e |-> 0]
NoCaps == [n \in 1..MaxGroups |-> NoGroup]
NoMatch == [ok |-> FALSE, index |-> 0, end |-> 0, caps |-> NoCaps]
IsWordAt(s, p) == p >= 0 /\ p < Len(s) /\ s[p + 1] \in WordChars

\* F(j) for the first j in lo..hi (ascending) for which it is a match
RECURSIVE FirstOk(_, _, _)
FirstOk(F(_), lo, hi) ==
  IF lo > hi THEN NoMatch
  ELSE IF lo = hi THEN F(lo)
  ELSE LET mid == (lo + hi) \div 2
           a == FirstOk(F, lo, mid)
       IN IF a.ok THEN a ELSE FirstOk(F, mid + 1, hi)

\* number of characters from index p on that lie in set, at most cap
RunLength(s, p, set, cap) ==
  LET lim == IF cap >= 0 /\ cap < Len(s) - p THEN cap ELSE Len(s) - p
      bad == {j \in 1..lim : s[p + j] \notin set}
  IN IF bad = {} THEN lim ELSE (CHOOSE j \in bad : \A i \in bad : j <= i) - 1

\* The backtracking matcher: k is the list of pattern nodes still to match
\* from index p; the result is the first way (in priority order) to match
\* all of them.  A quantified character class tries its longest run first
\* and then shorter ones, as the general greedy quantifier does.
RECURSIVE M(_, _, _, _)
M(k, s, p, caps) ==
  IF k = <<>> THEN [ok |-> TRUE, index |-> 0, end |-> p, caps |-> caps]
  ELSE LET h == Head(k)
           r == Tail(k)
       IN CASE h.t = "chr" ->
                 IF p < Len(s) /\ s[p + 1] \in h.set THEN M(r, s, p + 1, caps) ELSE NoMatch
            [] h.t = "lit" ->
                 IF p + Len(h.cs) <= Len(s) /\ SubSeq(s, p + 1, p + Len(h.cs)) = h.cs
                 THEN M(r, s, p + Len(h.cs), caps) ELSE NoMatch
            [] h.t = "seq" -> M(h.xs \o r, s, p, caps)
            [] h.t = "alt" -> FirstOk(LAMBDA j : M(<<h.xs[j]>> \o r, s, p, caps), 1, Len(h.xs))
            [] h.t = "rep" ->
                 IF h.x.t = "chr"
                 THEN LET n == RunLength(s, p, h.x.set, h.hi)
                      IN FirstOk(LAMBDA j : M(r, s, p + n - j, caps), 0, n - h.lo)
                 ELSE IF h.hi = 0 THEN M(r, s, p, caps)
                 ELSE LET rest == Rep(h.x, IF h.lo > 0 THEN h.lo - 1 ELSE 0,
                                           IF h.hi > 0 THEN h.hi - 1 ELSE h.hi)
                          more == M(<<h.x, rest>> \o r, s, p, caps)
                      IN IF h.lo > 0 \/ more.ok THEN more ELSE M(r, s, p, caps)
            [] h.t = "grp" -> M(<<h.x, [t |-> "end", n |-> h.n, b |-> p]>> \o r, s, p, caps)
            [] h.t = "end" ->
                 M(r, s, p, [caps EXCEPT ![h.n] = [set |-> TRUE, b |-> h.b, e |-> p]])
            [] h.t = "wb" ->
                 IF IsWordAt(s, p - 1) # IsWordAt(s, p) THEN M(r, s, p, caps) ELSE NoMatch
            [] h.t = "la" ->
                 LET a == M(<<h.x>>, s, p, caps)
                 IN IF a.ok THEN M(r, s, p, a.caps) ELSE NoMatch
            [] h.t = "nla" ->
                 IF M(<<h.x>>, s, p, caps).ok THEN NoMatch ELSE M(r, s, p, caps)
            [] h.t = "bol" ->
                 IF p = 0 \/ s[p] \in {"\n", "\r"} THEN M(r, s, p, caps) ELSE NoMatch
            [] h.t = "bos" -> IF p = 0 THEN M(r, s, p, caps) ELSE NoMatch
            [] h.t = "eos" -> IF p = Len(s) THEN M(r, s, p, caps) ELSE NoMatch

MatchAt(re, s, p) == [M(<<re>>, s, p, NoCaps) EXCEPT !.index = p]

\* re.exec(s) with re.lastIndex = from: the leftmost match at or after from
Exec(re, s, from) == FirstOk(LAMBDA p : MatchAt(re, s, p), from, Len(s))

ExecI(re, s, from) == Exec(re, toLowerCase(s), from)
match(s, re) == Exec(re, s, 0)                \* s.match(re), re without the g flag
matchI(s, re) == ExecI(re, s, 0)
test(re, s) == Exec(re, s, 0).ok              \* re.test(s), re without the g flag
testI(re, s) == ExecI(re, s, 0).ok

\* Every match from lastIndex on, left to right, as the g flag iterates them
RECURSIVE AllFrom(_, _, _)
AllFrom(re, s, from) ==
  LET m == Exec(re, s, from)
  IN IF ~m.ok THEN <<>>
     ELSE <<m>> \o AllFrom(re, s, IF m.end = m.index THEN m.end + 1 ELSE m.end)
matchAllI(s, re, lastIndex) == AllFrom(re, toLowerCase(s), lastIndex)

\* m[0] and m[n] of a match m on the string s ("" for a group that took no part)
Whole(s, m) == SubSeq(s, m.index + 1, m.end)
Group(s, m, n) == IF m.caps[n].set THEN SubSeq(s, m.caps[n].b + 1, m.caps[n].e) ELSE <<>>

-----------------------------------------------------------------------------
(* Regex library, lines 165-173 *)

D == Chr(Digits)
S == Chr(Spaces)

\* variant: six or seven digits after the operator code
phoneReShortTail ==
  Cat(<<Alt(<<Cat(<<Opt(Chr({"+"})), Lit("92")>>), Lit("0")>>), Lit("3"), Rep(D, 2, 2),
        Opt(Chr(Spaces \cup {"-"})), Rep(D, 6, 7)>>)

\* /(?:\+?92|0)3\d{2}[\s-]?\d{7}/g
phoneRe ==
  Cat(<<Alt(<<Cat(<<Opt(Chr({"+"})), Lit("92")>>), Lit("0")>>), Lit("3"), Rep(D, 2, 2),
        Opt(Chr(Spaces \cup {"-"})), Rep(D, 7, 7)>>)

\* /(?:^|\s)#\s*([0-9]{1,6}[A-Z]?)(?=\b)/m
plotHashRe ==
  Cat(<<Alt(<<Bol, S>>), Lit("#"), Star(S),
        Grp(1, Cat(<<Rep(D, 1, 6), Opt(Chr(UpperSet))>>)), Ahead(WB)>>)

\* (?:(?:demand|price|asking)\s*[:=]?\s*)?(\d{1,3}(?:[\,\.]\d{3})*(?:\.\d+)?|\d{1,4}(?:\.\d{1,2})?)\s*(cr|crore|cr\.|lac|lakh|lacs|k|m|million)?  flags gi
priceRe ==
  Cat(<<Opt(Cat(<<Alt(<<Lit("demand"), Lit("price"), Lit("asking")>>),
                  Star(S), Opt(Chr({":", "="})), Star(S)>>)),
        Grp(1, Alt(<<Cat(<<Rep(D, 1, 3), Star(Cat(<<Chr({",", "."}), Rep(D, 3, 3)>>)),
                           Opt(Cat(<<Lit("."), Plus(D)>>))>>),
                     Cat(<<Rep(D, 1, 4), Opt(Cat(<<Lit("."), Rep(D, 1, 2)>>))>>)>>)),
        Star(S),
        Opt(Grp(2, Alt(<<Lit("cr"), Lit("crore"), Lit("cr."), Lit("lac"), Lit("lakh"),
                         Lit("lacs"), Lit("k"), Lit("m"), Lit("million")>>)))>>)

\* /(\d{1,3}(?:\.\d{1,2})?)\s*(kanal|marla|sq\s?ft|sq\s?yd|gaz|yard|yds?|feet)/i
sizeWordRe ==
  Cat(<<Grp(1, Cat(<<Rep(D, 1, 3), Opt(Cat(<<Lit("."), Rep(D, 1, 2)>>))>>)), Star(S),
        Grp(2, Alt(<<Lit("kanal"), Lit("marla"), Cat(<<Lit("sq"), Opt(S), Lit("ft")>>),
                     Cat(<<Lit("sq"), Opt(S), Lit("yd")>>), Lit("gaz"), Lit("yard"),
                     Cat(<<Lit("yd"), Opt(Lit("s"))>>), Lit("feet")>>))>>)

\* /\b(\d{1,2})\s*([mk])\b/i
sizeShortRe == Cat(<<WB, Grp(1, Rep(D, 1, 2)), Star(S), Grp(2, Chr({"m", "k"})), WB>>)

\* /(\d{2,3})\s*([x×*\/])\s*(\d{2,3})/i
dimensionRe ==
  Cat(<<Grp(1, Rep(D, 2, 3)), Star(S), Grp(2, Chr({"x", "×", "*", "/"})), Star(S),
        Grp(3, Rep(D, 2, 3))>>)

\* /plot(?:\s*#|(?:\s*no)?|num)?\s*([\d]{1,6}[A-Z]?)/i
plotWordRe ==
  Cat(<<Lit("plot"),
        Opt(Alt(<<Cat(<<Star(S), Lit("#")>>), Opt(Cat(<<Star(S), Lit("no")>>)), Lit("num")>>)),
        Star(S), Grp(1, Cat(<<Rep(D, 1, 6), Opt(Chr(CI(UpperSet)))>>))>>)

\* /\b(\d{2,4})\s*-?\s*series\b/i
plotSeriesRe ==
  Cat(<<WB, Grp(1, Rep(D, 2, 4)), Star(S), Opt(Lit("-")), Star(S), Lit("series"), WB>>)

\* /(?:street|st)\s*(\d{1,4})/i
streetRe == Cat(<<Alt(<<Lit("street"), Lit("st")>>), Star(S), Grp(1, Rep(D, 1, 4))>>)

-----------------------------------------------------------------------------
(* toE164, lines 75-82 *)

\* variant: the "3" branch taken without the length test
toE164NoLengthTest(pk) ==
  LET d == SelectChars(pk, Digits)
  IN IF d = <<>> THEN <<>>
     ELSE IF startsWith(d, <<"9", "2">>) THEN <<"+">> \o d
     ELSE IF startsWith(d, <<"0">>) THEN <<"+", "9", "2">> \o slice(d, 1)
     ELSE IF startsWith(d, <<"3">>) THEN <<"+", "9", "2">> \o d
     ELSE <<"+">> \o d

\* toE164(pk)
toE164(pk) ==
  LET d == SelectChars(pk, Digits)      \* (pk||"").replace(/\D/g,"")
  IN IF d = <<>> THEN <<>>
     ELSE IF startsWith(d, <<"9", "2">>) THEN <<"+">> \o d
     ELSE IF startsWith(d, <<"0">>) THEN <<"+", "9", "2">> \o slice(d, 1)
     ELSE IF startsWith(d, <<"3">>) /\ Len(d) = 10 THEN <<"+", "9", "2">> \o d
     ELSE <<"+">> \o d

-----------------------------------------------------------------------------
(* Values of type number | "" (size_val, demand_pkr): Num(n) is the number *)
(* n, Absent is the empty string the code uses for "no number".            *)

Num(n) == [num |-> n]
Absent == [absent |-> TRUE]

RECURSIVE Pow10(_)
Pow10(k) == IF k <= 0 THEN 1 ELSE 10 * Pow10(k - 1)

RECURSIVE DigitsValue(_, _)
DigitsValue(cs, acc) ==
  IF cs = <<>> THEN acc ELSE DigitsValue(Tail(cs), 10 * acc + DigitVal[Head(cs)])

RECURSIVE LeadingDigits(_)
LeadingDigits(cs) ==
  IF cs # <<>> /\ Head(cs) \in Digits THEN <<Head(cs)>> \o LeadingDigits(Tail(cs)) ELSE <<>>

\* parseFloat(cs) for cs beginning with a digit: the decimal number
\* m / 10^d read from the longest prefix <digits>[.<digits>]
parseFloat(cs) ==
  LET ip == LeadingDigits(cs)
      rest == SubSeq(cs, Len(ip) + 1, Len(cs))
      fp == IF rest # <<>> /\ Head(rest) = "." THEN LeadingDigits(Tail(rest)) ELSE <<>>
  IN [m |-> DigitsValue(ip \o fp, 0), d |-> Len(fp)]

\* x >= a/10^k and x <= a/10^k for the decimal number x
NumGE(x, a, k) == x.m * Pow10(k) >= a * Pow10(x.d)
NumLE(x, a, k) == x.m * Pow10(k) <= a * Pow10(x.d)

\* Math.round(x * 10^e)
RoundScaled(x, e) ==
  IF e >= x.d THEN x.m * Pow10(e - x.d)
  ELSE LET q == Pow10(x.d - e) IN (2 * x.m + q) \div (2 * q)

RECURSIVE Canonical(_)
Canonical(x) == IF x.d > 0 /\ x.m % 10 = 0 THEN Canonical([m |-> x.m \div 10, d |-> x.d - 1]) ELSE x
RECURSIVE NumDigits(_)
NumDigits(n) == IF n < 10 THEN 1 ELSE 1 + NumDigits(n \div 10)
\* String(x).length
StringLength(x) ==
  LET c == Canonical(x)
  IN NumDigits(c.m \div Pow10(c.d)) + (IF c.d > 0 THEN 1 + c.d ELSE 0)

-----------------------------------------------------------------------------
(* formatBlock / labelBlock, lines 64-74 *)

\* variant: the two styles exchanged
formatBlockStylesSwapped(letter, st) ==
  LET L == toUpperCase(letter)
  IN IF L = <<>> THEN <<>>
     ELSE IF st = "letter" THEN Chars("Block ") \o L ELSE L \o Chars(" block")

\* formatBlock(letter, style), lines 64-68
formatBlock(letter, st) ==
  LET L == toUpperCase(letter)
  IN IF L = <<>> THEN <<>>
     ELSE IF st = "letter" THEN L \o Chars(" block") ELSE Chars("Block ") \o L

labelBlock(blockOrName, st) ==
  IF blockOrName = <<>> THEN <<>>
  ELSE LET s == trim(blockOrName)
       IN IF Len(s) = 1 /\ s[1] \in Letters THEN formatBlock(s, st)     \* /^[A-Za-z]$/
          ELSE toUpperCase(SubSeq(s, 1, 1)) \o toLowerCase(slice(s, 1))

-----------------------------------------------------------------------------
(* parsePrice, lines 208-256 *)

\* /plot\s*(?:#|no|num)?\s*\d{1,6}/ig, line 216
plotCtxRe ==
  Cat(<<Lit("plot"), Star(S), Opt(Alt(<<Lit("#"), Lit("no"), Lit("num")>>)), Star(S),
        Rep(D, 1, 6)>>)

\* variant: plotCtxRe hoisted to module level, so that a call starts from
\* the lastIndex the previous call left
plotCtxAtEntryHoisted(left) == left

\* lastIndex of plotCtxRe when parsePrice starts, given what the previous
\* call left: the literal is evaluated anew in every call (line 216)
plotCtxAtEntry(left) == 0

\* variant: every call of isNearPlot scans the text from its start
plotCtxResumeFromStart(li) == 0

\* plotCtxRe is /g and nothing resets it between the calls of isNearPlot: the
\* exec loop of line 218 resumes from the lastIndex li the previous call left
plotCtxResume(li) == li

\* isNearPlot(i), lines 217-222, with plotCtxRe.lastIndex = li; the result
\* carries the lastIndex the loop leaves behind
RECURSIVE isNearPlot(_, _, _)
isNearPlot(text, i, li) ==
  LET m == ExecI(plotCtxRe, text, li)
  IN IF ~m.ok THEN [near |-> FALSE, li |-> 0]
     ELSE IF (i >= m.index /\ i <= m.end) \/ (i > m.end /\ i - m.end <= 8)
          THEN [near |-> TRUE, li |-> m.end]
          ELSE isNearPlot(text, i, m.end)

CrUnits == {Chars("cr"), Chars("cr."), Chars("crore")}
LacUnits == {Chars("lac"), Chars("lakh"), Chars("lacs")}

\* variant: the lakh band tried before the crore band
BandExponentLakhFirst(num, text) ==
  IF NumGE(num, 1000000, 0) THEN 0
  ELSE IF NumGE(num, 10, 0) /\ NumLE(num, 500, 0)
          /\ \E w \in LacUnits : includes(toLowerCase(text), w) THEN 5
  ELSE IF NumGE(num, 8, 1) /\ NumLE(num, 10, 0) /\ includes(toLowerCase(text), Chars("cr")) THEN 7
  ELSE IF NumGE(num, 80, 0) /\ NumLE(num, 500, 0)
          /\ \E w \in {Chars("demand"), Chars("asking")} : includes(toLowerCase(text), w) THEN 5
  ELSE -1

\* lines 238-241: the bands of a match without unit, as the exponent e of the
\* factor 10^e applied to num; -1 when pkr stays undefined
BandExponent(num, text) ==
  IF NumGE(num, 1000000, 0) THEN 0
  ELSE IF NumGE(num, 8, 1) /\ NumLE(num, 10, 0) /\ includes(toLowerCase(text), Chars("cr")) THEN 7
  ELSE IF NumGE(num, 10, 0) /\ NumLE(num, 500, 0)
          /\ \E w \in LacUnits : includes(toLowerCase(text), w) THEN 5
  ELSE IF NumGE(num, 80, 0) /\ NumLE(num, 500, 0)
          /\ \E w \in {Chars("demand"), Chars("asking")} : includes(toLowerCase(text), w) THEN 5
  ELSE -1

\* variant: m / million multiplied like k
UnitExponentMillionAsThousand(unit, num, text) ==
  IF unit \in CrUnits THEN 7
  ELSE IF unit \in LacUnits THEN 5
  ELSE IF unit = Chars("k") THEN 3
  ELSE IF unit = Chars("m") \/ unit = Chars("million") THEN 3
  ELSE -1

\* lines 232-242: the amount of a match, as the exponent e of the factor
\* 10^e applied to num; -1 when pkr stays undefined
UnitExponent(unit, num, text) ==
  IF unit \in CrUnits THEN 7
  ELSE IF unit \in LacUnits THEN 5
  ELSE IF unit = Chars("k") THEN 3
  ELSE IF unit = Chars("m") \/ unit = Chars("million") THEN 6
  ELSE BandExponent(num, text)

Abs(n) == IF n < 0 THEN -n ELSE n
Max(a, b) == IF a >= b THEN a ELSE b

\* lines 245-249; the score is kept in hundredths (score * 100)
Score(unit, num, idx, demandIdx, priceIdx) ==
  (IF unit # <<>> THEN 300 ELSE 0)
  + (IF demandIdx # -1 THEN Max(0, 200 - 2 * Abs(idx - demandIdx)) ELSE 0)
  + (IF priceIdx # -1 THEN Max(0, 100 - 2 * Abs(idx - priceIdx)) ELSE 0)
  - (IF unit = <<>> /\ StringLength(num) >= 4 THEN 50 ELSE 0)

\* the loop of lines 225-252 over the matches from the k-th on
RECURSIVE Candidates(_, _, _, _, _)
Candidates(text, matches, k, li, cands) ==
  IF k > Len(matches) THEN [cands |-> cands, li |-> li]
  ELSE LET m == matches[k]
           rawNum == Group(text, m, 1)
           unit == toLowerCase(Group(text, m, 2))
           num == parseFloat(SelectChars(rawNum, {c \in Range(rawNum) : c # ","}))
           idx == m.index
           np == isNearPlot(text, idx, plotCtxResume(li))
           e == UnitExponent(unit, num, text)
           lower == toLowerCase(text)
       IN IF rawNum = <<>> THEN Candidates(text, matches, k + 1, li, cands)
          ELSE IF np.near THEN Candidates(text, matches, k + 1, np.li, cands)
          ELSE IF e = -1 \/ num.m = 0 THEN Candidates(text, matches, k + 1, np.li, cands)
          ELSE Candidates(text, matches, k + 1, np.li,
                 Append(cands, [pkr |-> RoundScaled(num, e), raw |-> Whole(text, m),
                                score |-> Score(unit, num, idx, indexOf(lower, Chars("demand")),
                                                indexOf(lower, Chars("price")))]))

\* variant: equal scores ordered by the smaller amount
CompareCandsSmallerFirst(a, b) == IF b.score # a.score THEN b.score - a.score ELSE a.pkr - b.pkr

\* the comparator of line 254: negative when a sorts before b
CompareCands(a, b) == IF b.score # a.score THEN b.score - a.score ELSE b.pkr - a.pkr

\* Array.prototype.sort (stable) by insertion
RECURSIVE InsertCand(_, _)
InsertCand(sorted, c) ==
  IF sorted = <<>> THEN <<c>>
  ELSE IF CompareCands(c, sorted[Len(sorted)]) < 0
       THEN Append(InsertCand(SubSeq(sorted, 1, Len(sorted) - 1), c), sorted[Len(sorted)])
       ELSE Append(sorted, c)
RECURSIVE SortCands(_, _)
SortCands(cands, k) ==
  IF k = 0 THEN <<>> ELSE InsertCand(SortCands(cands, k - 1), cands[k])

\* variant: 0 in place of the absent marker
NoPriceZero(li) == [amount |-> Num(0), text |-> <<>>, li |-> li, cands |-> <<>>]

\* {amount:"", text:""}, lines 210 and 253
NoPrice(li) == [amount |-> Absent, text |-> <<>>, li |-> li, cands |-> <<>>]

\* parsePrice(text) with priceRe.lastIndex = priceLast on entry and
\* plotCtxRe.lastIndex = plotLast; li is the lastIndex plotCtxRe ends with
TopCandidate(sorted, li) ==
  [amount |-> Num(sorted[1].pkr), text |-> sorted[1].raw, li |-> li, cands |-> sorted]

\* lines 253-255, r what the loop left
SelectPrice(r) ==
  IF r.cands = <<>> THEN NoPrice(r.li)
  ELSE TopCandidate(SortCands(r.cands, Len(r.cands)), r.li)

\* lines 210-255, matches the matches of priceRe
PriceOfMatches(text, matches, plotLast) ==
  IF matches = <<>> THEN NoPrice(plotLast)
  ELSE SelectPrice(Candidates(text, matches, 1, plotLast, <<>>))

parsePrice(text, priceLast, plotLast) ==
  PriceOfMatches(text, matchAllI(text, priceRe, priceLast), plotLast)

-----------------------------------------------------------------------------
(* parseSize, lines 258-292 *)

\* DIM_TO_MARLA, line 186
DIM_TO_MARLA ==
  (Chars("25x50") :> 5) @@ (Chars("30x60") :> 7) @@ (Chars("35x70") :> 10)
  @@ (Chars("50x90") :> 20) @@ (Chars("100x90") :> 40)

\* variant: the table is not consulted
DimensionResultNoLookup(text, d) ==
  LET w == Group(text, d, 1)
      sep == Group(text, d, 2)
      h == Group(text, d, 3)
      dimExact == w \o sep \o h
  IN [val |-> Absent, unit |-> dimExact, dim |-> dimExact]

\* lines 264-273
DimensionResult(text, d) ==
  LET w == Group(text, d, 1)
      sep == Group(text, d, 2)
      h == Group(text, d, 3)
      dimExact == w \o sep \o h
      dimKey == toLowerCase(w \o <<"x">> \o h)
  IN IF dimKey \in DOMAIN DIM_TO_MARLA
     THEN [val |-> Num(DIM_TO_MARLA[dimKey]), unit |-> Chars("Marla"), dim |-> dimExact]
     ELSE [val |-> Absent, unit |-> dimExact, dim |-> dimExact]

\* lines 274-290: the worded branch computes val, raw and unitMap and
\* returns nothing; control falls through to the final return of line 291
WordedResult(text, s2) ==
  LET val == parseFloat(Group(text, s2, 1))
      raw == SelectChars(toLowerCase(Group(text, s2, 2)), WordChars)
      unitMap == (Chars("kanal") :> "Kanal") @@ (Chars("marla") :> "Marla")
                 @@ (Chars("sqft") :> "SqFt") @@ (Chars("sqyd") :> "SqYd")
                 @@ (Chars("sqyard") :> "SqYd") @@ (Chars("yard") :> "SqYd")
                 @@ (Chars("yds") :> "SqYd") @@ (Chars("gaz") :> "SqYd")
                 @@ (Chars("feet") :> "SqFt")
  IN [val |-> Absent, unit |-> <<>>, dim |-> <<>>]

parseSize(text) ==
  LET s1 == matchI(text, sizeShortRe)
      d == matchI(text, dimensionRe)
      s2 == matchI(text, sizeWordRe)
  IN IF s1.ok
     THEN [val |-> Num(DigitsValue(Group(text, s1, 1), 0)),
           unit |-> IF toLowerCase(Group(text, s1, 2)) = <<"k">> THEN Chars("Kanal")
                    ELSE Chars("Marla"),
           dim |-> <<>>]
     ELSE IF d.ok THEN DimensionResult(text, d)
     ELSE IF s2.ok THEN WordedResult(text, s2)
     ELSE [val |-> Absent, unit |-> <<>>, dim |-> <<>>]

-----------------------------------------------------------------------------
(* Defaults, lines 27-39 *)

\* The values an alias table can hold under a phase/block label (the table
\* is typed Record<string, any>): a list of pattern strings, or a string, a
\* number, an object that is no list, or null
ArrayValue(xs) == [type |-> "array", items |-> xs]
StringValue(str) == [type |-> "string", items |-> [i \in 1..Len(str) |-> <<SubSeq(str, i, i)>>]]
NumberValue(n) == [type |-> "number", n |-> n]
ObjectValue == [type |-> "object"]
NullValue == [type |-> "null"]

\* society -> phase/block label -> patterns, in key order
DEFAULT_ALIASES == <<
  [society |-> Chars("Bahria Town Rawalpindi"),
   blocks |-> <<[phase |-> Chars("Phase 7"),
                 patterns |-> ArrayValue(<<Chars("BHT 7"), Chars("BT P7"), Chars("Bahria P7"),
                                           Chars("Bahria Town Phase 7")>>)]>>],
  [society |-> Chars("Faisal Hills"),
   blocks |-> <<[phase |-> Chars("Executive"),
                 patterns |-> ArrayValue(<<Chars("FH Executive"), Chars("FH Executive Block"),
                                           Chars("Executive Block")>>)]>>],
  [society |-> Chars("Multi Gardens B-17"),
   blocks |-> <<[phase |-> Chars("Block F"),
                 patterns |-> ArrayValue(<<Chars("B17 F"), Chars("Multi Garden F"),
                                           Chars("B-17 F")>>)]>>] >>

DEFAULT_SOC_DICT ==
  Chars("Bahria Town Karachi : BTK, Bahria Karachi, BT Karachi\n")
  \o Chars("DHA Lahore : DHA LHR, Defence Lahore\n")
  \o Chars("Bahria Town Rawalpindi : BTR, Bahria Pindi, Bahria Rwp\n")
  \o Chars("Gulberg Islamabad : GI, Gulberg Isb\n")
  \o Chars("Multi Gardens B-17 : MG B-17, Multi Garden, MPCHS B-17, B-17\n")
  \o Chars("Faisal Hills : FH, FH{block}, FH{name}, Faisal Hills Taxila")

-----------------------------------------------------------------------------
(* Dictionary (CSV), lines 85-133 *)

\* csv.split(/\r?\n/)
SplitLines(csv) ==
  LET raw == split(csv, "\n")
  IN [i \in 1..Len(raw) |->
        IF i < Len(raw) /\ raw[i] # <<>> /\ raw[i][Len(raw[i])] = "\r"
        THEN SubSeq(raw[i], 1, Len(raw[i]) - 1) ELSE raw[i]]

\* a Set<string>, in insertion order
RECURSIVE SetAddAll(_, _)
SetAddAll(set, xs) ==
  IF xs = <<>> THEN set
  ELSE SetAddAll(IF Head(xs) \in Range(set) THEN set ELSE Append(set, Head(xs)), Tail(xs))

RECURSIVE TrimNonEmpty(_)
TrimNonEmpty(xs) ==
  IF xs = <<>> THEN <<>>
  ELSE (IF trim(Head(xs)) = <<>> THEN <<>> ELSE <<trim(Head(xs))>>) \o TrimNonEmpty(Tail(xs))

\* the Map<string, Set<string>> of parseSocietyCSV, as the sequence of its
\* entries in insertion order
RECURSIVE parseSocietyLines(_, _)
parseSocietyLines(lines, map) ==
  IF lines = <<>> THEN map
  ELSE LET trimmed == trim(Head(lines))
           parts == split(trimmed, ":")
           canonical == trim(parts[1])
           aliases == TrimNonEmpty(split(join(Tail(parts), <<":">>), ","))
           at == {i \in 1..Len(map) : map[i].canonical = canonical}
           added == SetAddAll(SetAddAll(IF at = {} THEN <<>> ELSE map[CHOOSE i \in at : TRUE].set,
                                        aliases), <<canonical>>)
       IN IF trimmed = <<>> \/ Len(parts) < 2 \/ canonical = <<>>
          THEN parseSocietyLines(Tail(lines), map)
          ELSE parseSocietyLines(Tail(lines),
                 IF at = {} THEN Append(map, [canonical |-> canonical, set |-> added])
                 ELSE [map EXCEPT ![CHOOSE i \in at : TRUE].set = added])

parseSocietyCSV(csv) == parseSocietyLines(SplitLines(csv), <<>>)

\* escRe (line 41) followed by new RegExp(..., "i"): the pattern that
\* matches the string literally, whatever characters it holds
escRe(cs) == LitChars(toLowerCase(cs))

\* alias.replace(/\{block\}/i, "") and alias.replace(/\{name\}/i, "")
RemoveFirst(cs, tag) ==
  LET i == indexOf(toLowerCase(cs), tag)
  IN IF i = -1 THEN cs ELSE SubSeq(cs, 1, i) \o SubSeq(cs, i + Len(tag) + 1, Len(cs))

\* lines 108-129 for one alias: the hit it gives, or hit = FALSE
AliasHit(text, canonical, aliasRaw) ==
  LET alias == trim(aliasRaw)
      miss == [hit |-> FALSE, society |-> <<>>, block |-> <<>>]
  IN IF alias = <<>> THEN miss
     ELSE IF includes(toLowerCase(alias), Chars("{block}"))
     THEN LET m == matchI(text, Cat(<<WB, escRe(RemoveFirst(alias, Chars("{block}"))),
                                      Grp(1, Chr(CI(UpperSet))), WB>>))
          IN IF m.ok THEN [hit |-> TRUE, society |-> canonical,
                           block |-> toUpperCase(Group(text, m, 1))]
             ELSE miss
     ELSE IF includes(toLowerCase(alias), Chars("{name}"))
     THEN LET m == matchI(text, Cat(<<WB, escRe(RemoveFirst(alias, Chars("{name}"))), Plus(S),
                                      Grp(1, Plus(Chr(CI(Letters)))), WB>>))
          IN IF m.ok THEN [hit |-> TRUE, society |-> canonical, block |-> Group(text, m, 1)]
             ELSE miss
     ELSE IF Len(alias) >= 2 /\ testI(Cat(<<WB, escRe(alias), WB>>), text)
     THEN [hit |-> TRUE, society |-> canonical, block |-> <<>>]
     ELSE miss

\* the two nested loops of lines 107-131, from alias a of entry e on
RECURSIVE SearchDict(_, _, _, _)
SearchDict(text, map, e, a) ==
  IF e > Len(map) THEN [society |-> <<>>, block |-> <<>>]
  ELSE IF a > Len(map[e].set) THEN SearchDict(text, map, e + 1, 1)
  ELSE LET h == AliasHit(text, map[e].canonical, map[e].set[a])
       IN IF h.hit THEN [society |-> h.society, block |-> h.block]
          ELSE SearchDict(text, map, e, a + 1)

findSocietyFromDict(text, csv) ==
  SearchDict(text, parseSocietyCSV(IF csv = <<>> THEN DEFAULT_SOC_DICT ELSE csv), 1, 1)

-----------------------------------------------------------------------------
(* Aliases JSON, lines 136-161 *)

\* const patterns = blocks[phase] || [] followed by for (const pat of
\* patterns), lines 149-150: what the loop iterates over.  A falsy value
\* ("", 0, null) gives the empty list; a non-empty string is iterated
\* character by character; a number other than 0 and an object that is no
\* list are not iterable and the for-of statement throws a TypeError.
PatternsOf(v) ==
  CASE v.type = "array" -> [iterable |-> TRUE, items |-> v.items]
    [] v.type = "string" -> [iterable |-> TRUE, items |-> v.items]
    [] v.type = "number" -> [iterable |-> v.n = 0, items |-> <<>>]
    [] v.type = "object" -> [iterable |-> FALSE, items |-> <<>>]
    [] v.type = "null" -> [iterable |-> TRUE, items |-> <<>>]

\* lines 146-159, from pattern p of block b of society s on; threw is TRUE
\* when the loop of line 150 threw
RECURSIVE SearchAliases(_, _, _, _, _)
SearchAliases(t, aliases, s, b, p) ==
  IF s > Len(aliases) THEN [society |-> <<>>, phase_block |-> <<>>, threw |-> FALSE]
  ELSE IF b > Len(aliases[s].blocks)
  THEN IF includes(t, toLowerCase(aliases[s].society))
       THEN [society |-> aliases[s].society, phase_block |-> <<>>, threw |-> FALSE]
       ELSE SearchAliases(t, aliases, s + 1, 1, 1)
  ELSE IF ~PatternsOf(aliases[s].blocks[b].patterns).iterable
  THEN [society |-> <<>>, phase_block |-> <<>>, threw |-> TRUE]
  ELSE IF p > Len(PatternsOf(aliases[s].blocks[b].patterns).items)
  THEN SearchAliases(t, aliases, s, b + 1, 1)
  ELSE IF includes(t, toLowerCase(PatternsOf(aliases[s].blocks[b].patterns).items[p]))
  THEN [society |-> aliases[s].society, phase_block |-> aliases[s].blocks[b].phase,
        threw |-> FALSE]
  ELSE SearchAliases(t, aliases, s, b, p + 1)

\* aliasesJSON = <<>> stands for null / undefined
matchAliases(text, aliasesJSON) ==
  SearchAliases(toLowerCase(text), IF aliasesJSON = <<>> THEN DEFAULT_ALIASES ELSE aliasesJSON,
                1, 1, 1)

-----------------------------------------------------------------------------
(* extractBarePlotNumber, lines 188-205 *)

\* /(?:street|st)\s*\d{1,4}/gi, line 195
streetZoneRe == Cat(<<Alt(<<Lit("street"), Lit("st")>>), Star(S), Rep(D, 1, 4)>>)
\* /\b(\d{2,4})\b/g, line 197
bareNumberRe == Cat(<<WB, Grp(1, Rep(D, 2, 4)), WB>>)
\* /\b(marla|kanal|sq|yard|yds?|feet|ft|street|st|series)\b/, line 200
sizeContextRe ==
  Cat(<<WB, Alt(<<Lit("marla"), Lit("kanal"), Lit("sq"), Lit("yard"),
                  Cat(<<Lit("yd"), Opt(Lit("s"))>>), Lit("feet"), Lit("ft"), Lit("street"),
                  Lit("st"), Lit("series")>>), WB>>)

\* variant: the matches of the price pattern are no exclusion zones
ExclusionsWithoutPrice(text) ==
  AllFrom(phoneRe, text, 0) \o matchAllI(text, dimensionRe, 0) \o matchAllI(text, plotWordRe, 0)
  \o AllFrom(plotHashRe, text, 0) \o matchAllI(text, streetZoneRe, 0)

\* lines 189-195: the [start, end) ranges of all matches of the six patterns
\* (the same patterns as phoneRe, dimensionRe, plotWordRe, plotHashRe,
\* priceRe and streetRe, written out again in the source with the g flag)
Exclusions(text) ==
  AllFrom(phoneRe, text, 0) \o matchAllI(text, dimensionRe, 0) \o matchAllI(text, plotWordRe, 0)
  \o AllFrom(plotHashRe, text, 0) \o matchAllI(text, priceRe, 0)
  \o matchAllI(text, streetZoneRe, 0)

Inside(exclusions, i) ==
  \E k \in 1..Len(exclusions) : i >= exclusions[k].index /\ i < exclusions[k].end

\* text.slice(a, b) for 0 <= a
sliceRange(cs, a, b) == SubSeq(cs, a + 1, IF b > Len(cs) THEN Len(cs) ELSE b)

RECURSIVE FirstBare(_, _, _, _)
FirstBare(text, exclusions, ms, k) ==
  IF k > Len(ms) THEN <<>>
  ELSE LET i == ms[k].index
           near == toLowerCase(sliceRange(text, Max(0, i - 8), i + 8))
       IN IF Inside(exclusions, i) THEN FirstBare(text, exclusions, ms, k + 1)
          ELSE IF test(sizeContextRe, near) THEN FirstBare(text, exclusions, ms, k + 1)
          ELSE Group(text, ms[k], 1)

extractBarePlotNumber(text) ==
  LET ms == AllFrom(bareNumberRe, text, 0)
  IN IF ms = <<>> THEN <<>> ELSE FirstBare(text, Exclusions(text), ms, 1)

-----------------------------------------------------------------------------
(* parsePhaseBlock, lines 297-349 *)

AlnumDash == Chr(LowerSet \cup Digits \cup {"-"})
PhaseNumChars == Chr(Digits \cup {"i", "v", "x", "l", "c", "d", "m"})
NamedBlocks ==
  {Chars("executive"), Chars("overseas"), Chars("safari"), Chars("hills"),
   Chars("extension"), Chars("ext")}

\* /\b(?:block|blk)\s*(?!size\b)([a-z0-9-]+)\b/i, line 320
blockRightRe ==
  Cat(<<WB, Alt(<<Lit("block"), Lit("blk")>>), Star(S), NotAhead(Cat(<<Lit("size"), WB>>)),
        Grp(1, Plus(AlnumDash)), WB>>)
\* /\b(?!size\b)([a-z0-9-]+)\s*(?:block|blk)\b/i, line 331
blockLeftRe ==
  Cat(<<WB, NotAhead(Cat(<<Lit("size"), WB>>)), Grp(1, Plus(AlnumDash)), Star(S),
        Alt(<<Lit("block"), Lit("blk")>>), WB>>)
\* /\bphase\s*([0-9ivxlcdm]+)\b/i and /\b([0-9ivxlcdm]+)\s*phase\b/i, line 340
phaseRightRe == Cat(<<WB, Lit("phase"), Star(S), Grp(1, Plus(PhaseNumChars)), WB>>)
phaseLeftRe == Cat(<<WB, Grp(1, Plus(PhaseNumChars)), Star(S), Lit("phase"), WB>>)

cap(cs) == IF cs = <<>> THEN cs ELSE toUpperCase(SubSeq(cs, 1, 1)) \o slice(cs, 1)

RomanValue ==
  ("I" :> 1) @@ ("V" :> 5) @@ ("X" :> 10) @@ ("L" :> 50) @@ ("C" :> 100) @@ ("D" :> 500)
  @@ ("M" :> 1000)

\* the loop of lines 311-314 from position i (1-based) on
RECURSIVE RomanSum(_, _)
RomanSum(R, i) ==
  IF i > Len(R) THEN 0
  ELSE LET v == RomanValue[R[i]]
           n == IF i < Len(R) THEN RomanValue[R[i + 1]] ELSE 0
       IN (IF v < n THEN -v ELSE v) + RomanSum(R, i + 1)

\* the values of the letters added up
RECURSIVE RomanPlain(_, _)
RomanPlain(R, i) == IF i > Len(R) THEN 0 ELSE RomanValue[R[i]] + RomanPlain(R, i + 1)

\* variant: every letter added, none subtracted
romanToArabicAdditive(r) ==
  LET R == toUpperCase(r)
  IN IF R # <<>> /\ \A i \in 1..Len(R) : R[i] \in DOMAIN RomanValue THEN RomanPlain(R, 1) ELSE 0

\* romanToArabic, lines 306-316; 0 stands for null
romanToArabic(r) ==
  LET R == toUpperCase(r)
  IN IF R # <<>> /\ \A i \in 1..Len(R) : R[i] \in DOMAIN RomanValue THEN RomanSum(R, 1) ELSE 0

RECURSIVE IntToChars(_)
IntToChars(n) ==
  IF n < 10 THEN <<DigitChars[n + 1]>> ELSE IntToChars(n \div 10) \o <<DigitChars[(n % 10) + 1]>>

\* lines 322-326 and 333-336; <<>> when no branch returns
BlockLabel(token) ==
  IF Len(token) = 1 /\ token[1] \in Letters THEN Chars("Block ") \o toUpperCase(token)
  ELSE IF toLowerCase(token) \in NamedBlocks THEN cap(token)
  ELSE IF token # <<>> /\ \A i \in 1..Len(token) : token[i] \in Letters \cup Digits \cup {"-"}
       THEN cap(token) \o Chars(" Block")
  ELSE <<>>

\* lines 341-345
PhaseLabel(raw) ==
  LET roman == romanToArabic(raw)
      num == IF \A i \in 1..Len(raw) : raw[i] \in Digits THEN IntToChars(DigitsValue(raw, 0))
             ELSE IF roman # 0 THEN IntToChars(roman)
             ELSE raw
  IN Chars("Phase ") \o toUpperCase(num)

\* variant: the phase looked for before the block tokens
parsePhaseBlockPhaseFirst(text, st) ==
  LET t == <<" ">> \o toLowerCase(text) \o <<" ">>
      m1 == match(t, blockRightRe)
      l1 == IF m1.ok THEN BlockLabel(trim(Group(t, m1, 1))) ELSE <<>>
      m2 == match(t, blockLeftRe)
      l2 == IF m2.ok THEN BlockLabel(trim(Group(t, m2, 1))) ELSE <<>>
      m3 == match(t, phaseRightRe)
      m4 == match(t, phaseLeftRe)
  IN IF m3.ok THEN PhaseLabel(trim(Group(t, m3, 1)))
     ELSE IF m4.ok THEN PhaseLabel(trim(Group(t, m4, 1)))
     ELSE IF l1 # <<>> THEN l1
     ELSE IF l2 # <<>> THEN l2
     ELSE <<>>

\* parsePhaseBlock(text, style), lines 297-349
parsePhaseBlock(text, st) ==
  LET t == <<" ">> \o toLowerCase(text) \o <<" ">>
      m1 == match(t, blockRightRe)
      l1 == IF m1.ok THEN BlockLabel(trim(Group(t, m1, 1))) ELSE <<>>
      m2 == match(t, blockLeftRe)
      l2 == IF m2.ok THEN BlockLabel(trim(Group(t, m2, 1))) ELSE <<>>
      m3 == match(t, phaseRightRe)
      m4 == match(t, phaseLeftRe)
  IN IF l1 # <<>> THEN l1
     ELSE IF l2 # <<>> THEN l2
     ELSE IF m3.ok THEN PhaseLabel(trim(Group(t, m3, 1)))
     ELSE IF m4.ok THEN PhaseLabel(trim(Group(t, m4, 1)))
     ELSE <<>>

-----------------------------------------------------------------------------
(* parseSocietyBlockPlot, lines 352-389 *)

ReplaceChar(cs, a, b) == [i \in 1..Len(cs) |-> IF cs[i] = a THEN b ELSE cs[i]]

\* lines 371-386
FirstPlotMatch(t, mSeries, mPlot, mHash) ==
  IF mSeries.ok THEN ReplaceChar(Group(t, mSeries, 1) \o Chars(" series"), "X", "x")
  ELSE IF mPlot.ok THEN Group(t, mPlot, 1)
  ELSE IF mHash.ok THEN Group(t, mHash, 1)
  ELSE <<>>

\* lines 383-386
BareFallback(t, plotNo) == IF plotNo = <<>> THEN extractBarePlotNumber(t) ELSE plotNo

PlotNumber(t) ==
  BareFallback(t, FirstPlotMatch(t, matchI(t, plotSeriesRe), matchI(t, plotWordRe),
                                 match(t, plotHashRe)))

\* lines 362-388, with the dictionary's hit, the block label made of it
\* and the alias table's hit (the dictionary's society when it found one)
ResolveBlockPlot(text, st, dictHit, block0, hit) ==
  LET block1 == IF dictHit.society = <<>> /\ block0 = <<>> THEN hit.phase_block ELSE block0
  IN [society |-> hit.society,
      phase_block |-> IF block1 = <<>> THEN parsePhaseBlock(text, st) ELSE block1,
      plotNo |-> PlotNumber(text),
      threw |-> hit.threw]

\* variant: the alias table is consulted first and the dictionary's society
\* is used when the table names none
ResolveSocietyAliasFirst(text, st, aliasesJSON, dictHit) ==
  ResolveBlockPlot(text, st, [society |-> <<>>, block |-> dictHit.block],
    IF dictHit.block # <<>> THEN labelBlock(dictHit.block, st) ELSE <<>>,
    IF matchAliases(text, aliasesJSON).society # <<>> THEN matchAliases(text, aliasesJSON)
    ELSE [society |-> dictHit.society, phase_block |-> <<>>, threw |-> FALSE])

\* lines 356-366, with the dictionary's hit
ResolveSociety(text, st, aliasesJSON, dictHit) ==
  ResolveBlockPlot(text, st, dictHit,
    IF dictHit.block # <<>> THEN labelBlock(dictHit.block, st) ELSE <<>>,
    IF dictHit.society = <<>> THEN matchAliases(text, aliasesJSON)
    ELSE [society |-> dictHit.society, phase_block |-> <<>>, threw |-> FALSE])

parseSocietyBlockPlot(text, st, dictCSV, aliasesJSON) ==
  ResolveSociety(text, st, aliasesJSON, findSocietyFromDict(text, dictCSV))

-----------------------------------------------------------------------------
(* parseMessage, lines 392-424 *)

\* the table of lines 176-184 with the Corner entry moved to the front
flagsCornerFirst == <<
  [re |-> Cat(<<WB, Lit("corner"), WB>>), label |-> Chars("Corner")],
  [re |-> Cat(<<WB, Lit("ndc"), Star(S), Alt(<<Lit("open"), Lit("clear"), Lit("available")>>), WB>>),
   label |-> Chars("NDC open")],
  [re |-> Cat(<<WB, Lit("possession"), WB>>), label |-> Chars("Possession")],
  [re |-> Cat(<<WB, Alt(<<Cat(<<Lit("sun"), Star(S), Lit("face"),
                               Opt(Alt(<<Lit("d"), Lit("ing")>>))>>),
                         Cat(<<Lit("south"), Star(S), Lit("open")>>)>>), WB>>),
   label |-> Chars("Sun face")],
  [re |-> Cat(<<WB, Lit("park"), Opt(Chr(Spaces \cup {"-"})), Lit("facing"), WB>>),
   label |-> Chars("Park facing")],
  [re |-> Alt(<<Cat(<<WB, Lit("boulevard")>>), Cat(<<WB, Lit("main"), Plus(S), Lit("boulevard")>>),
                Cat(<<WB, Lit("on"), Plus(S), Lit("boulevard"), WB>>)>>),
   label |-> Chars("Boulevard")],
  [re |-> Alt(<<Cat(<<WB, Lit("near"), Plus(S), Lit("commercial")>>),
                Cat(<<WB, Lit("near"), Plus(S), Lit("markaz")>>),
                Cat(<<WB, Lit("back"), Plus(S), Lit("open"), WB>>)>>),
   label |-> Chars("Near commercial/markaz/back open")] >>

\* the flags table, lines 176-184
flags == <<
  [re |-> Cat(<<WB, Lit("ndc"), Star(S), Alt(<<Lit("open"), Lit("clear"), Lit("available")>>), WB>>),
   label |-> Chars("NDC open")],
  [re |-> Cat(<<WB, Lit("possession"), WB>>), label |-> Chars("Possession")],
  [re |-> Cat(<<WB, Alt(<<Cat(<<Lit("sun"), Star(S), Lit("face"),
                               Opt(Alt(<<Lit("d"), Lit("ing")>>))>>),
                         Cat(<<Lit("south"), Star(S), Lit("open")>>)>>), WB>>),
   label |-> Chars("Sun face")],
  [re |-> Cat(<<WB, Lit("corner"), WB>>), label |-> Chars("Corner")],
  [re |-> Cat(<<WB, Lit("park"), Opt(Chr(Spaces \cup {"-"})), Lit("facing"), WB>>),
   label |-> Chars("Park facing")],
  [re |-> Alt(<<Cat(<<WB, Lit("boulevard")>>), Cat(<<WB, Lit("main"), Plus(S), Lit("boulevard")>>),
                Cat(<<WB, Lit("on"), Plus(S), Lit("boulevard"), WB>>)>>),
   label |-> Chars("Boulevard")],
  [re |-> Alt(<<Cat(<<WB, Lit("near"), Plus(S), Lit("commercial")>>),
                Cat(<<WB, Lit("near"), Plus(S), Lit("markaz")>>),
                Cat(<<WB, Lit("back"), Plus(S), Lit("open"), WB>>)>>),
   label |-> Chars("Near commercial/markaz/back open")] >>

\* lines 418-420
cornerRe == Cat(<<WB, Lit("corner"), WB>>)
parkRe == Cat(<<Lit("park"), Opt(Chr(Spaces \cup {"-"})), Lit("facing")>>)
possessionRe == Cat(<<WB, Lit("possession"), WB>>)

\* the loop of line 404 from table entry k on
RECURSIVE NotesBits(_, _, _)
NotesBits(table, lower, k) ==
  IF k > Len(table) THEN <<>>
  ELSE (IF test(table[k].re, lower) THEN <<table[k].label>> ELSE <<>>)
       \o NotesBits(table, lower, k + 1)

\* what a call that ended in an exception leaves in place of a record (the
\* TypeError of line 150 is caught nowhere)
Thrown == [threw |-> "TypeError"]

\* parseMessage(text, opts) with opts.blockOutputStyle = st ("" when
\* omitted), the module's regexes at lastIndex priceLast / plotLast; li is
\* the lastIndex parsePrice leaves in plotCtxRe
ParsedResult(text, sbp, phones, demand, size, lower, notesBits) ==
  [li |-> demand.li,
   result |->
     IF sbp.threw THEN Thrown ELSE
     [society |-> Str(sbp.society),
      phase_block |-> Str(sbp.phase_block),
      plot_no |-> Str(sbp.plotNo),
      size_val |-> size.val,
      size_unit |-> Str(size.unit),
      demand_pkr |-> demand.amount,
      demand_text |-> Str(demand.text),
      phone_e164 |-> IF phones # <<>> THEN Str(toE164(Whole(text, phones[1]))) ELSE "",
      notes |-> Str(join(SetAddAll(<<>>, notesBits), Chars(", "))),
      flags |-> [corner |-> test(cornerRe, lower), park |-> test(parkRe, lower),
                 possession |-> test(possessionRe, lower)],
      dimensions |-> Str(size.dim)]]

\* lines 402-405
Notes(size, lower) ==
  NotesBits(flags, lower, 1)
  \o (IF size.dim # <<>> THEN <<Chars("Dimensions ") \o size.dim>> ELSE <<>>)

\* lines 402-423, with what lines 396-400 computed
BuildResult(text, sbp, phones, demand, size, lower) ==
  ParsedResult(text, sbp, phones, demand, size, lower, Notes(size, lower))

\* parseMessage(text, {blockOutputStyle: st, aliasesJSON})
parseMessageOpts(text, st, aliasesJSON, priceLast, plotLast) ==
  BuildResult(text,
    parseSocietyBlockPlot(text, IF st = "" THEN "title" ELSE st, DEFAULT_SOC_DICT, aliasesJSON),
    AllFrom(phoneRe, text, 0),
    parsePrice(text, priceLast, plotLast),
    parseSize(text),
    toLowerCase(text))

\* parseMessage(text, {blockOutputStyle: st}): no alias table given
parseMessage(text, st, priceLast, plotLast) ==
  parseMessageOpts(text, st, <<>>, priceLast, plotLast)

-----------------------------------------------------------------------------
(* The inputs of the calls *)

ScenarioA == "BTR Phase 7 Plot # 123 10 Marla Demand 85 Lac 0300-1234567 corner plot"
ScenarioB == "Multi Gardens B-17 Block F Plot 45 25x50 Price 1.2 Cr 03211234567"

\* messages called with every block style
Corpus ==
  {ScenarioA, ScenarioB, "",
   "corner plot, possession available",
   "Park facing corner plot, possession available, NDC clear",
   "FHf plot 12 demand 90 lac",
   "fhF 5 marla possession",
   "Faisal Hills Executive Block plot 7"}

Styles == {"", "title", "letter"}

\* a listing is built from phrases, one per slot, in this order: society,
\* phase/block, plot, size, price, phone, features
Slots == <<
  {"BTR", "FHf"},
  {"Phase 7", "Block F"},
  {"Plot # 123", "300 series"},
  {"10 Marla", "25x50"},
  {"Demand 85 Lac", "Price 1.2 Cr"},
  {"0300-1234567", "+923211234567"},
  {"corner plot", "possession available"} >>

MaxSlots == 3

\* block letters, written right after the alias FH of the default dictionary
BlockLetters == {"f", "F", "a", "Z", "q"}

SlotChoice(i) == Slots[i] \cup {""}
Listings ==
  {l \in SlotChoice(1) \X SlotChoice(2) \X SlotChoice(3) \X SlotChoice(4) \X SlotChoice(5)
          \X SlotChoice(6) \X SlotChoice(7) :
     Cardinality({i \in 1..Len(Slots) : l[i] # ""}) <= MaxSlots}

\* the phrases of a listing, joined by single spaces
RECURSIVE ListingText(_, _)
ListingText(l, i) ==
  IF i > Len(l) THEN ""
  ELSE LET rest == ListingText(l, i + 1)
       IN IF l[i] = "" THEN rest ELSE IF rest = "" THEN l[i] ELSE l[i] \o " " \o rest

-----------------------------------------------------------------------------
(* The calls *)

NoResult == [none |-> TRUE]
NoMemo == [set |-> FALSE, input |-> "", optStyle |-> "", out |-> NoResult, at |-> 0]

MaxCalls == 3

Init ==
  /\ pc = "idle"
  /\ op = ""
  /\ arg = <<>>
  /\ input = ""
  /\ optStyle = ""
  /\ out = NoResult
  /\ ret = <<>>
  /\ phoneReLastIndex = 0
  /\ priceReLastIndex = 0
  /\ plotCtxLastIndex = 0
  /\ memo = NoMemo
  /\ ncalls = 0
  /\ payments = <<>>
  /\ user_devices = <<>>
  /\ otps = {}
  /\ reqs = <<>>

\* the call returns r.result and leaves plotCtxRe at r.li
Returns(r) ==
  /\ out' = r.result
  /\ plotCtxLastIndex' = r.li

\* parseMessage(t, {blockOutputStyle: st}) runs to its return; a is what
\* the text was built from
CallParseMessage(a, t, st) ==
  /\ pc = "idle"
  /\ ncalls < MaxCalls
  /\ Returns(parseMessage(Chars(t), st, priceReLastIndex, plotCtxAtEntry(plotCtxLastIndex)))
  /\ phoneReLastIndex' = 0        \* String.prototype.match with a /g regex, line 398
  /\ pc' = "done"
  /\ op' = "parseMessage"
  /\ arg' = a
  /\ input' = t
  /\ optStyle' = st
  /\ ncalls' = ncalls + 1
  /\ UNCHANGED server
  /\ UNCHANGED <<ret, priceReLastIndex, memo>>

\* the process ends; the module is loaded anew
Restart ==
  /\ pc = "done"
  /\ pc' = "idle"
  /\ op' = ""
  /\ arg' = <<>>
  /\ input' = ""
  /\ optStyle' = ""
  /\ out' = NoResult
  /\ ret' = <<>>
  /\ phoneReLastIndex' = 0
  /\ priceReLastIndex' = 0
  /\ plotCtxLastIndex' = 0
  /\ memo' = NoMemo
  /\ ncalls' = 0
  /\ UNCHANGED server

\* One parseMessage call per process
Next ==
  \/ \E t \in Corpus, st \in Styles : CallParseMessage([kind |-> "corpus"], t, st)
  \/ \E l \in Listings :
       CallParseMessage([kind |-> "listing", slots |-> l], ListingText(l, 1), "")
  \/ \E c \in BlockLetters, st \in Styles :
       CallParseMessage([kind |-> "block", letter |-> c], "FH" \o c \o " plot 12", st)
  \/ Restart

Spec == Init /\ [][Next]_vars

Has(str, sub) == includes(Chars(str), Chars(sub))
Before(str, a, b) ==
  LET i == indexOf(Chars(str), Chars(a))
      j == indexOf(Chars(str), Chars(b))
  IN i # -1 /\ j # -1 /\ i < j

Returned(t, st) == pc = "done" /\ op = "parseMessage" /\ input = t /\ optStyle = st

\* C1: parseMessage on scenario A with default options returns society "Bahria
\* Town Rawalpindi", phase_block "Phase 7", plot_no "123", size_val 10, size_unit
\* "Marla", demand_pkr 8500000, demand_text "85 Lac", phone_e164 "+923001234567"
\* and notes containing "Corner".
C1_ScenarioA ==
  Returned(ScenarioA, "") =>
    /\ out.society = "Bahria Town Rawalpindi"
    /\ out.phase_block = "Phase 7"
    /\ out.plot_no = "123"
    /\ out.size_val = Num(10)
    /\ out.size_unit = "Marla"
    /\ out.demand_pkr = Num(8500000)
    /\ out.demand_text = "85 Lac"
    /\ out.phone_e164 = "+923001234567"
    /\ Has(out.notes, "Corner")

\* C2: parseMessage on scenario B with default options returns society "Multi
\* Gardens B-17", phase_block "Block F", plot_no "45", size_val 5, size_unit
\* "Marla", dimensions "25x50", demand_pkr 12000000, phone_e164 "+923211234567"
\* and notes containing "Dimensions 25x50".
C2_ScenarioB ==
  Returned(ScenarioB, "") =>
    /\ out.society = "Multi Gardens B-17"
    /\ out.phase_block = "Block F"
    /\ out.plot_no = "45"
    /\ out.size_val = Num(5)
    /\ out.size_unit = "Marla"
    /\ out.dimensions = "25x50"
    /\ out.demand_pkr = Num(12000000)
    /\ out.phone_e164 = "+923211234567"
    /\ Has(out.notes, "Dimensions 25x50")

\* C2: scenario B has been parsed, its price starting 7 characters after the
\* end of "Plot 45", and that price was selected
C2_Witness ==
  /\ Returned(ScenarioB, "")
  /\ indexOf(Chars(input), Chars("Price")) = indexOf(Chars(input), Chars("Plot 45")) + 7 + 7
  /\ out.demand_text = "Price 1.2 Cr"
  /\ out.demand_pkr = Num(12000000)

IsNumberOrAbsent(v) == v = Absent \/ (DOMAIN v = {"num"} /\ v.num \in Int)
Defaults ==
  [society |-> "", phase_block |-> "", plot_no |-> "", size_val |-> Absent, size_unit |-> "",
   demand_pkr |-> Absent, demand_text |-> "", phone_e164 |-> "", notes |-> "",
   flags |-> [corner |-> FALSE, park |-> FALSE, possession |-> FALSE], dimensions |-> ""]

\* C7: every parseMessage call with the default configuration returns a
\* record of the eleven fields, and for the empty string the record holds ""
\* in every string field, the absent marker in size_val and demand_pkr, and
\* false in the three flags.
C7_TotalAndDefaults ==
  (pc = "done" /\ op = "parseMessage") =>
    /\ DOMAIN out = DOMAIN Defaults
    /\ IsNumberOrAbsent(out.size_val) /\ IsNumberOrAbsent(out.demand_pkr)
    /\ DOMAIN out.flags = {"corner", "park", "possession"}
    /\ \A f \in DOMAIN out.flags : out.flags[f] \in BOOLEAN
    /\ input = "" => out = Defaults

\* C7: the empty string has been parsed
C7_Witness ==
  /\ Returned("", "")
  /\ out.size_val = Absent /\ out.demand_pkr = Absent
  /\ out.society = "" /\ out.notes = ""

FlagsPhrase == "corner plot, possession available"

\* C9 as stated: for a text containing "corner plot, possession available"
\* both flags are set and notes holds "Corner" before "Possession".
C9_CornerBeforePossession ==
  (pc = "done" /\ op = "parseMessage" /\ Has(input, FlagsPhrase)) =>
    /\ out.flags.corner /\ out.flags.possession
    /\ Before(out.notes, "Corner", "Possession")

\* C9 as amended: for a text containing "corner plot, possession available"
\* flags.corner and flags.possession are true and notes holds both labels in
\* the order of the flags table, "Possession" before "Corner".
C9_PossessionBeforeCorner ==
  (pc = "done" /\ op = "parseMessage" /\ Has(input, FlagsPhrase)) =>
    /\ out.flags.corner /\ out.flags.possession
    /\ Before(out.notes, "Possession", "Corner")

\* C9: a text with the phrase has been parsed
C9_Witness ==
  /\ Returned(FlagsPhrase, "")
  /\ out.flags.corner /\ out.flags.possession
  /\ out.notes = "Possession, Corner"

\* C10 as stated: for the block letter "f" captured by the dictionary, style
\* "title" (the default) yields "Block F" and style "letter" yields "f block".
C10_LetterStyleKeepsCase ==
  (pc = "done" /\ op = "parseMessage" /\ arg.kind = "block" /\ arg.letter = "f") =>
    /\ optStyle \in {"", "title"} => out.phase_block = "Block F"
    /\ optStyle = "letter" => out.phase_block = "f block"

\* C10 as amended: for a block letter captured by the dictionary, style
\* "title" (the default) yields "Block " and the letter in upper case, and
\* style "letter" yields the letter in upper case and " block": "Block F" and
\* "F block" for the letter "f".
C10_BlockStyles ==
  (pc = "done" /\ op = "parseMessage" /\ arg.kind = "block") =>
    LET L == Str(toUpperCase(Chars(arg.letter)))
    IN /\ out.society = "Faisal Hills"
       /\ optStyle \in {"", "title"} => out.phase_block = "Block " \o L
       /\ optStyle = "letter" => out.phase_block = L \o " block"

\* C10: the letter "f" has been formatted in style "letter"
C10_Witness ==
  /\ pc = "done" /\ op = "parseMessage" /\ arg.kind = "block" /\ arg.letter = "f"
  /\ optStyle = "letter"
  /\ out.phase_block = "F block"

-----------------------------------------------------------------------------
(* toE164 called on its own *)

\* a phone number is written from a digit string in one of these ways
PhoneLeads == {"92", "0", "3", "9", "4"}
PhoneFillers == {"345123456789012", "201234567890123"}
PhoneStyles == {"plain", "dash", "plus", "spaced"}

MaxDigits == 12

PhoneDigits ==
  {""} \cup {SubSeq(l \o f, 1, n) : l \in PhoneLeads, f \in PhoneFillers, n \in 1..MaxDigits}

WritePhone(d, style) ==
  CASE style = "plain" -> d
    [] style = "dash" -> IF Len(d) > 4 THEN SubSeq(d, 1, 4) \o "-" \o SubSeq(d, 5, Len(d)) ELSE d
    [] style = "plus" -> "+" \o d
    [] style = "spaced" -> IF Len(d) > 2 THEN "(" \o SubSeq(d, 1, 2) \o ") " \o SubSeq(d, 3, Len(d)) ELSE d \o " "

\* toE164(pk) runs to its return
CallToE164(a, pk) ==
  /\ pc = "idle"
  /\ ncalls < MaxCalls
  /\ ret' = Str(toE164(Chars(pk)))
  /\ pc' = "done"
  /\ op' = "toE164"
  /\ arg' = a
  /\ input' = pk
  /\ ncalls' = ncalls + 1
  /\ UNCHANGED server
  /\ UNCHANGED <<optStyle, out, phoneReLastIndex, priceReLastIndex, plotCtxLastIndex, memo>>

NextE164 ==
  \/ \E d \in PhoneDigits, w \in PhoneStyles :
       CallToE164([digits |-> d, style |-> w], WritePhone(d, w))
  \/ Restart

SpecE164 == Init /\ [][NextE164]_vars

\* C4: toE164 keeps only the digits d of its argument and returns "" when d
\* is empty, "+" d when d starts with "92", "+92" and d without its first
\* digit when d starts with "0", "+92" d when d starts with "3" and has exactly
\* 10 digits, and "+" d in every other case.
C4_E164Cases ==
  (pc = "done" /\ op = "toE164") =>
    LET d == arg.digits
    IN ret = IF d = "" THEN ""
             ELSE IF Len(d) >= 2 /\ SubSeq(d, 1, 2) = "92" THEN "+" \o d
             ELSE IF SubSeq(d, 1, 1) = "0" THEN "+92" \o SubSeq(d, 2, Len(d))
             ELSE IF SubSeq(d, 1, 1) = "3" /\ Len(d) = 10 THEN "+92" \o d
             ELSE "+" \o d

\* C4, the claim's example: "0345-1234567" has been normalised
C4_Witness ==
  /\ pc = "done" /\ op = "toE164"
  /\ input = "0345-1234567"
  /\ ret = "+923451234567"

\* an already normalised number and the empty string have been passed in
C4_WitnessNormalised ==
  pc = "done" /\ op = "toE164" /\ input = "+923451234567" /\ ret = input
C4_WitnessEmpty ==
  pc = "done" /\ op = "toE164" /\ input = "" /\ ret = ""
C4_WitnessTenDigits ==
  pc = "done" /\ op = "toE164" /\ arg.digits = "3345123456" /\ ret = "+923345123456"

-----------------------------------------------------------------------------
(* parseSize called on its own *)

\* a dimension is written as W, separator, H, with or without blanks around
\* the separator, after a lead that may hold a shorthand size
DimWidths == {"25", "30", "35", "50", "100", "40"}
DimHeights == {"50", "60", "70", "90", "80"}
DimSeps == {"x", "X", "×", "*", "/"}
DimGaps == {"", " "}
ShortLeads == {"5 m "}
DimLeads == {"", "size "} \cup ShortLeads

\* a worded size is written as a number, an optional blank and a unit word
SizeNumbers == {10, 5, 1, 125}
SizeWordLabel ==
  ("kanal" :> "Kanal") @@ ("marla" :> "Marla") @@ ("sq ft" :> "SqFt") @@ ("sqft" :> "SqFt")
  @@ ("sq yd" :> "SqYd") @@ ("sqyd" :> "SqYd") @@ ("gaz" :> "SqYd") @@ ("yard" :> "SqYd")
  @@ ("yds" :> "SqYd") @@ ("yd" :> "SqYd") @@ ("feet" :> "SqFt")
  @@ ("Marla" :> "Marla") @@ ("KANAL" :> "Kanal") @@ ("Sq Ft" :> "SqFt")
SizeWords == DOMAIN SizeWordLabel
SizeGaps == {"", " "}

ReturnsSize(r) == ret' = [val |-> r.val, unit |-> Str(r.unit), dim |-> Str(r.dim)]

\* parseSize(t) runs to its return
CallParseSize(a, t) ==
  /\ pc = "idle"
  /\ ncalls < MaxCalls
  /\ ReturnsSize(parseSize(Chars(t)))
  /\ pc' = "done"
  /\ op' = "parseSize"
  /\ arg' = a
  /\ input' = t
  /\ ncalls' = ncalls + 1
  /\ UNCHANGED server
  /\ UNCHANGED <<optStyle, out, phoneReLastIndex, priceReLastIndex, plotCtxLastIndex, memo>>

NextSize ==
  \/ \E l \in DimLeads, w \in DimWidths, g \in DimGaps, sep \in DimSeps, h \in DimHeights :
       CallParseSize([kind |-> "dim", lead |-> l, w |-> w, sep |-> sep, h |-> h],
                     l \o w \o g \o sep \o g \o h)
  \/ \E n \in SizeNumbers, g \in SizeGaps, u \in SizeWords :
       CallParseSize([kind |-> "worded", n |-> n, word |-> u], Str(IntToChars(n)) \o g \o u)
  \/ Restart

SpecSize == Init /\ [][NextSize]_vars

\* C3: for a text that is a number followed by a unit word, with no shorthand
\* size and no dimension in it, parseSize returns that number as val and the
\* canonical label of the unit word (Kanal, Marla, SqFt or SqYd) as unit.
C3_WordedSizeReturned ==
  (pc = "done" /\ op = "parseSize" /\ arg.kind = "worded") =>
    /\ ret.val = Num(arg.n)
    /\ ret.unit = SizeWordLabel[arg.word]

\* C6: for a text holding the dimension W sep H and no shorthand size, parseSize
\* returns 5, 7, 10, 20 or 40 Marla when W x H is 25x50, 30x60, 35x70, 50x90 or
\* 100x90, with dim the dimension as written; for every other pair val is
\* absent and unit and dim are both the dimension as written.
C6_DimensionLookup ==
  (pc = "done" /\ op = "parseSize" /\ arg.kind = "dim" /\ arg.lead \notin ShortLeads) =>
    LET raw == arg.w \o arg.sep \o arg.h
        Table == {<<"25", "50", 5>>, <<"30", "60", 7>>, <<"35", "70", 10>>,
                  <<"50", "90", 20>>, <<"100", "90", 40>>}
        hits == {e \in Table : e[1] = arg.w /\ e[2] = arg.h}
    IN IF hits # {}
       THEN \A e \in hits : ret = [val |-> Num(e[3]), unit |-> "Marla", dim |-> raw]
       ELSE ret = [val |-> Absent, unit |-> raw, dim |-> raw]

\* C6: "25x50" has been resolved through the table
C6_Witness ==
  /\ pc = "done" /\ op = "parseSize"
  /\ input = "25x50"
  /\ ret = [val |-> Num(5), unit |-> "Marla", dim |-> "25x50"]

\* a pair outside the table has been resolved
C6_WitnessUnknown ==
  /\ pc = "done" /\ op = "parseSize"
  /\ input = "40x80"
  /\ ret = [val |-> Absent, unit |-> "40x80", dim |-> "40x80"]

-----------------------------------------------------------------------------
(* parsePrice called on its own *)

\* a price is written as an optional keyword, a numeral, an optional blank and
\* a unit, and may be followed by more text; a numeral is its text str and its
\* value m / 10^d
PriceKeywords == {"", "Demand ", "asking ", "price: "}
PriceNumerals ==
  {[str |-> "85", m |-> 85, d |-> 0], [str |-> "1.5", m |-> 15, d |-> 1],
   [str |-> "1.25", m |-> 125, d |-> 2], [str |-> "1", m |-> 1, d |-> 0],
   [str |-> "850", m |-> 850, d |-> 0], [str |-> "0.5", m |-> 5, d |-> 1],
   [str |-> "1,200", m |-> 1200, d |-> 0], [str |-> "12.75", m |-> 1275, d |-> 2]}
PriceGaps == {"", " "}
UnitMultiplier ==
  ("cr" :> 10000000) @@ ("Cr" :> 10000000) @@ ("crore" :> 10000000) @@ ("cr." :> 10000000)
  @@ ("lac" :> 100000) @@ ("Lac" :> 100000) @@ ("lakh" :> 100000) @@ ("lacs" :> 100000)
  @@ ("k" :> 1000) @@ ("K" :> 1000)
  @@ ("m" :> 1000000) @@ ("M" :> 1000000) @@ ("million" :> 1000000)
PriceUnits == DOMAIN UnitMultiplier
PriceTails == {"", " 0300-1234567"}

\* the amount is a number the 32-bit integers of the model hold
Fits(n, u) == n.m <= 2147483647 \div UnitMultiplier[u]

ReturnsPrice(r) ==
  /\ ret' = [amount |-> r.amount, text |-> Str(r.text)]
  /\ plotCtxLastIndex' = r.li

\* parsePrice(t) runs to its return
CallParsePrice(a, t) ==
  /\ pc = "idle"
  /\ ncalls < MaxCalls
  /\ ReturnsPrice(parsePrice(Chars(t), priceReLastIndex, plotCtxAtEntry(plotCtxLastIndex)))
  /\ pc' = "done"
  /\ op' = "parsePrice"
  /\ arg' = a
  /\ input' = t
  /\ ncalls' = ncalls + 1
  /\ UNCHANGED server
  /\ UNCHANGED <<optStyle, out, phoneReLastIndex, priceReLastIndex, memo>>

NextPrice ==
  \/ \E kw \in PriceKeywords, n \in PriceNumerals, g \in PriceGaps, u \in PriceUnits,
        tl \in PriceTails :
       /\ Fits(n, u)
       /\ CallParsePrice([kw |-> kw, n |-> n, unit |-> u, tail |-> tl],
                         kw \o n.str \o g \o u \o tl)
  \/ Restart

SpecPrice == Init /\ [][NextPrice]_vars

\* C5: a price written with a unit is returned as number x multiplier, the
\* multiplier being 10,000,000 for cr, crore and cr., 100,000 for lac, lakh and
\* lacs, 1,000 for k and 1,000,000 for m and million, in any letter case.
C5_UnitMultiplier ==
  (pc = "done" /\ op = "parsePrice") =>
    ret.amount = Num((arg.n.m * UnitMultiplier[arg.unit]) \div Pow10(arg.n.d))

\* C5, the claim's examples
C5_Witness ==
  /\ pc = "done" /\ op = "parsePrice"
  /\ input = "Demand 85 Lac"
  /\ ret.amount = Num(8500000)

C5_WitnessCrore ==
  /\ pc = "done" /\ op = "parsePrice"
  /\ input = "asking 1.5 Cr"
  /\ ret.amount = Num(15000000)

-----------------------------------------------------------------------------
(* Several parseMessage calls in one process *)

\* <<text, blockOutputStyle>> of a call
CallInputs ==
  {<<"Plot 45", "">>, <<"Plot 45 demand 90 lac", "">>, <<"FHf plot 12 90 lac", "">>,
   <<"FHf plot 12 90 lac", "letter">>, <<"corner plot 0300-1234567", "">>}

\* the call returns; its record is dropped
Return ==
  /\ pc = "done"
  /\ pc' = "idle"
  /\ op' = ""
  /\ arg' = <<>>
  /\ input' = ""
  /\ optStyle' = ""
  /\ out' = NoResult
  /\ ret' = <<>>
  /\ UNCHANGED <<phoneReLastIndex, priceReLastIndex, plotCtxLastIndex, memo, ncalls>>
  /\ UNCHANGED server

\* the call returns and the caller keeps its record, to compare it with the
\* records of later calls
Remember ==
  /\ pc = "done"
  /\ ~memo.set
  /\ memo' = [set |-> TRUE, input |-> input, optStyle |-> optStyle, out |-> out, at |-> ncalls]
  /\ pc' = "idle"
  /\ op' = ""
  /\ arg' = <<>>
  /\ input' = ""
  /\ optStyle' = ""
  /\ out' = NoResult
  /\ ret' = <<>>
  /\ UNCHANGED <<phoneReLastIndex, priceReLastIndex, plotCtxLastIndex, ncalls>>
  /\ UNCHANGED server

NextCalls ==
  \/ \E c \in CallInputs :
       CallParseMessage([kind |-> "call", left |-> plotCtxLastIndex], c[1], c[2])
  \/ Return
  \/ Remember
  \/ Restart

SpecCalls == Init /\ [][NextCalls]_vars

\* C8: in any sequence of parseMessage calls, a call with the text and the
\* options of an earlier call returns the record the earlier call returned,
\* whatever the calls before it left in the regexes.
C8_Deterministic ==
  (pc = "done" /\ op = "parseMessage" /\ memo.set
     /\ memo.input = input /\ memo.optStyle = optStyle) =>
    out = memo.out

\* C8: a text has been parsed again after another call left plotCtxRe at a
\* lastIndex other than 0, and the record is that of the first call
C8_Witness ==
  /\ pc = "done" /\ op = "parseMessage" /\ memo.set
  /\ memo.input = input /\ memo.optStyle = optStyle
  /\ input = "Plot 45 demand 90 lac"
  /\ ncalls > memo.at + 1
  /\ arg.left # 0
  /\ out = memo.out
  /\ out.demand_pkr = Num(9000000)

-----------------------------------------------------------------------------
(* parseMessage called with an alias table of the caller *)

\* what the table holds under the label "Phase 2"
WellFormedValues == {ArrayValue(<<>>), ArrayValue(<<Chars("PV2")>>)}
MalformedValues ==
  {StringValue("PV2"), StringValue(""), NumberValue(7), NumberValue(0), ObjectValue, NullValue}
AliasValues == WellFormedValues \cup MalformedValues

\* the table, with the value v under "Phase 2" of the society chosen by pos:
\* first label of the first society, second label of the first society, or
\* only label of the second society
AliasTable(v, pos) ==
  LET phase2 == [phase |-> Chars("Phase 2"), patterns |-> v]
      overseas == [phase |-> Chars("Overseas"), patterns |-> ArrayValue(<<Chars("PV Overseas")>>)]
      blockA == [phase |-> Chars("Block A"), patterns |-> ArrayValue(<<Chars("GT A")>>)]
  IN CASE pos = 1 ->
            <<[society |-> Chars("Park View"), blocks |-> <<phase2, overseas>>],
              [society |-> Chars("Gulshan Town"), blocks |-> <<blockA>>]>>
       [] pos = 2 ->
            <<[society |-> Chars("Park View"), blocks |-> <<overseas, phase2>>],
              [society |-> Chars("Gulshan Town"), blocks |-> <<blockA>>]>>
       [] pos = 3 ->
            <<[society |-> Chars("Park View"), blocks |-> <<overseas>>],
              [society |-> Chars("Gulshan Town"), blocks |-> <<phase2>>]>>
AliasPositions == 1..3

AliasTexts ==
  {"Park View Block C plot 9 demand 90 lac",
   "PV Overseas 5 marla corner",
   "Gulshan Town GT A plot 12",
   "BTR Phase 7 plot 5"}
AliasStyles == {"", "letter"}

\* the call returns r.result, or ends in the exception thrown at line 396,
\* before parsePrice ran
ReturnsOrThrows(r) ==
  /\ out' = r.result
  /\ plotCtxLastIndex' = IF "threw" \in DOMAIN r.result THEN plotCtxLastIndex ELSE r.li

\* parseMessage(t, {blockOutputStyle: st, aliasesJSON}) runs to its end
CallParseMessageOpts(a, t, st, aliasesJSON) ==
  /\ pc = "idle"
  /\ ncalls < MaxCalls
  /\ ReturnsOrThrows(parseMessageOpts(Chars(t), st, aliasesJSON, priceReLastIndex,
                                      plotCtxAtEntry(plotCtxLastIndex)))
  /\ phoneReLastIndex' = 0
  /\ pc' = "done"
  /\ op' = "parseMessage"
  /\ arg' = a
  /\ input' = t
  /\ optStyle' = st
  /\ ncalls' = ncalls + 1
  /\ UNCHANGED server
  /\ UNCHANGED <<ret, priceReLastIndex, memo>>

\* texts for the resolution order: the dictionary, the alias table and the
\* heuristic each find something or nothing in them
ResolveTexts ==
  {"DHA LHR near Bahria P7 plot 5",
   "Multi Garden F plot 3",
   "BHT 7 block C plot 9",
   "FHf block C plot 2",
   "FH Executive Block",
   "Bahria Town Phase 7 Block D",
   "Phase 4 plot 12",
   "Executive Block plot 8 phase 2",
   "PV2 Block C",
   "BTR PV Overseas phase 3",
   "Gulshan Town F block",
   ""}
\* no table given (the default table is used), or a table of the caller
ResolveTables == <<(<<>>), AliasTable(ArrayValue(<<Chars("PV2")>>), 1)>>

NextAliases ==
  \/ \E t \in AliasTexts, st \in AliasStyles, v \in AliasValues, pos \in AliasPositions :
       CallParseMessageOpts([kind |-> "aliases", value |-> v, pos |-> pos], t, st,
                            AliasTable(v, pos))
  \/ \E t \in ResolveTexts, st \in Styles, k \in DOMAIN ResolveTables :
       CallParseMessageOpts([kind |-> "resolve", table |-> k], t, st, ResolveTables[k])
  \/ Restart

SpecAliases == Init /\ [][NextAliases]_vars

\* C11: a call whose alias table holds, under a phase/block label, a value
\* that is no list of patterns (a string, a number, an object, null) returns
\* the record the same call returns when that label holds the empty list: the
\* entry gives no match and the call does not fail.
C11_MalformedAsEmpty ==
  (pc = "done" /\ op = "parseMessage" /\ arg.kind = "aliases" /\ arg.value.type # "array") =>
    out = parseMessageOpts(Chars(input), optStyle, AliasTable(ArrayValue(<<>>), arg.pos),
                           0, 0).result

\* a number under the label: the call ends in a TypeError
C11_NumberThrows ==
  /\ pc = "done" /\ op = "parseMessage" /\ arg.kind = "aliases"
  /\ arg.value = NumberValue(7) /\ arg.pos = 1
  /\ input = "Park View Block C plot 9 demand 90 lac"
  /\ out = Thrown

\* a string under the label: one of its characters matches and the label is
\* returned for a text that names another block
C11_StringMatches ==
  /\ pc = "done" /\ op = "parseMessage" /\ arg.kind = "aliases"
  /\ arg.value = StringValue("PV2") /\ arg.pos = 1
  /\ input = "Park View Block C plot 9 demand 90 lac"
  /\ "threw" \notin DOMAIN out
  /\ out.society = "Park View" /\ out.phase_block = "Phase 2"

\* a falsy value under the label (null, 0, "") is read as the empty list
C11_FalsyAsEmpty ==
  (pc = "done" /\ op = "parseMessage" /\ arg.kind = "aliases"
     /\ arg.value \in {NullValue, NumberValue(0), StringValue("")}) =>
    out = parseMessageOpts(Chars(input), optStyle, AliasTable(ArrayValue(<<>>), arg.pos),
                           0, 0).result

-----------------------------------------------------------------------------
(* parsePrice called on its own, its candidate list observed *)

\* the candidates as sorted by line 254, raw as a string
CandidateList(cands) ==
  [i \in 1..Len(cands) |->
     [pkr |-> cands[i].pkr, raw |-> Str(cands[i].raw), score |-> cands[i].score]]

ReturnsCandidates(r) ==
  /\ ret' = [amount |-> r.amount, text |-> Str(r.text), cands |-> CandidateList(r.cands)]
  /\ plotCtxLastIndex' = r.li

\* parsePrice(t) runs to its return
CallPriceCandidates(a, t) ==
  /\ pc = "idle"
  /\ ncalls < MaxCalls
  /\ ReturnsCandidates(parsePrice(Chars(t), priceReLastIndex, plotCtxAtEntry(plotCtxLastIndex)))
  /\ pc' = "done"
  /\ op' = "parsePrice"
  /\ arg' = a
  /\ input' = t
  /\ ncalls' = ncalls + 1
  /\ UNCHANGED server
  /\ UNCHANGED <<optStyle, out, phoneReLastIndex, priceReLastIndex, memo>>

\* a plot mention, a filler of gap characters and a price, after an optional
\* price that stands before the mention
PlotMentions == {"Plot 45", "plot # 7", "Plot no 123"}
MaxGap == 12
Filler == " ------------------"
NearPrices == {"90 lac", "1.2 Cr"}
NearLeads == {"", "80 lac for "}

\* two prices after an optional keyword, or a text without any price
SelectPrices == {"90 lac", "1.2 Cr", "85 lac", "2 cr", "500 k", "90"}
SelectKeywords == {"", "demand ", "price "}
SelectJoins == {" or ", " , final "}
NoPriceTexts == {"", "corner plot", "Plot 45", "call 0300-1234567"}

\* a number of at least 1,000,000 without unit, written in plain digits,
\* grouped by commas or grouped by periods
LiteralNumbers ==
  {[value |-> 8500000, plain |-> "8500000", comma |-> "8,500,000", period |-> "8.500.000"],
   [value |-> 1000000, plain |-> "1000000", comma |-> "1,000,000", period |-> "1.000.000"],
   [value |-> 12500000, plain |-> "12500000", comma |-> "12,500,000", period |-> "12.500.000"],
   [value |-> 125000000, plain |-> "125000000", comma |-> "125,000,000",
    period |-> "125.000.000"]}
NumberForms == {"plain", "comma", "period"}
LiteralLeads == {"", "demand ", "final ", "cr "}
LiteralTails == {"", " only"}

\* a number below 1,000,000 without unit, value m / 10^d, after words of
\* which cr, lac and ask tell whether "cr", a lakh word and "demand" or
\* "asking" occur in them
BandWords ==
  {[text |-> "", cr |-> FALSE, lac |-> FALSE, ask |-> FALSE],
   [text |-> "rate ", cr |-> FALSE, lac |-> FALSE, ask |-> FALSE],
   [text |-> "cr ", cr |-> TRUE, lac |-> FALSE, ask |-> FALSE],
   [text |-> "across ", cr |-> TRUE, lac |-> FALSE, ask |-> FALSE],
   [text |-> "lac ", cr |-> FALSE, lac |-> TRUE, ask |-> FALSE],
   [text |-> "Lakh ", cr |-> FALSE, lac |-> TRUE, ask |-> FALSE],
   [text |-> "lacs ", cr |-> FALSE, lac |-> TRUE, ask |-> FALSE],
   [text |-> "demand ", cr |-> FALSE, lac |-> FALSE, ask |-> TRUE],
   [text |-> "asking ", cr |-> FALSE, lac |-> FALSE, ask |-> TRUE],
   [text |-> "cr lac ", cr |-> TRUE, lac |-> TRUE, ask |-> FALSE],
   [text |-> "lac cr ", cr |-> TRUE, lac |-> TRUE, ask |-> FALSE],
   [text |-> "cr or lac, asking ", cr |-> TRUE, lac |-> TRUE, ask |-> TRUE],
   [text |-> "lac demand ", cr |-> FALSE, lac |-> TRUE, ask |-> TRUE],
   [text |-> "cr demand ", cr |-> TRUE, lac |-> FALSE, ask |-> TRUE]}
BandValues ==
  {[text |-> "0", m |-> 0, d |-> 0], [text |-> "0.5", m |-> 5, d |-> 1],
   [text |-> "0.79", m |-> 79, d |-> 2], [text |-> "0.8", m |-> 8, d |-> 1],
   [text |-> "1", m |-> 1, d |-> 0], [text |-> "9.99", m |-> 999, d |-> 2],
   [text |-> "10", m |-> 10, d |-> 0], [text |-> "10.5", m |-> 105, d |-> 1],
   [text |-> "50", m |-> 50, d |-> 0], [text |-> "79.9", m |-> 799, d |-> 1],
   [text |-> "80", m |-> 80, d |-> 0], [text |-> "500", m |-> 500, d |-> 0],
   [text |-> "500.5", m |-> 5005, d |-> 1], [text |-> "501", m |-> 501, d |-> 0],
   [text |-> "999", m |-> 999, d |-> 0]}
\* amounts of 0 with a unit
ZeroAmounts == {"0 lac", "0 cr", "0.00 lakh", "0 k", "0 million"}

\* two prices, each after an optional keyword: unit tells whether the price
\* carries a unit, digits is the number of digits of its numeral and strlen
\* the length of String(num)
ScoreKeywords == {"", "demand ", "price "}
ScorePrices ==
  {[text |-> "85 lac", unit |-> TRUE, digits |-> 2, strlen |-> 2],
   [text |-> "2 cr", unit |-> TRUE, digits |-> 1, strlen |-> 1],
   [text |-> "8,500,000", unit |-> FALSE, digits |-> 7, strlen |-> 7],
   [text |-> "1.25", unit |-> FALSE, digits |-> 3, strlen |-> 4],
   [text |-> "12.5", unit |-> FALSE, digits |-> 3, strlen |-> 4],
   [text |-> "90", unit |-> FALSE, digits |-> 2, strlen |-> 2]}
ScoreJoins ==
  {" or ", " or else, after a long talk with the owner of the other one, maybe "}

\* the mention k \o p.text at position idx of the text; sp tells whether a
\* blank follows it
ScoreMention(k, p, idx, sp) ==
  [idx |-> idx, raw |-> k \o p.text \o (IF sp /\ ~p.unit THEN " " ELSE ""),
   unit |-> p.unit, digits |-> p.digits, strlen |-> p.strlen]

\* the positions of the keyword w, given the keywords k1 at 0 and k2 at idx2
KeywordAt(w, k1, k2, idx2) ==
  (IF k1 = w THEN {0} ELSE {}) \cup (IF k2 = w THEN {idx2} ELSE {})

NextCandidates ==
  \/ \E ld \in NearLeads, pm \in PlotMentions, g \in 1..MaxGap, pr \in NearPrices :
       CallPriceCandidates([kind |-> "near", lead |-> ld, mention |-> pm, gap |-> g, price |-> pr],
                           ld \o pm \o SubSeq(Filler, 1, g) \o pr)
  \/ \E kw \in SelectKeywords, p1 \in SelectPrices, j \in SelectJoins, p2 \in SelectPrices :
       /\ p1 # p2
       /\ CallPriceCandidates([kind |-> "select", kw |-> kw, first |-> p1, second |-> p2],
                              kw \o p1 \o j \o p2)
  \/ \E t \in NoPriceTexts : CallPriceCandidates([kind |-> "select", none |-> TRUE], t)
  \/ \E n \in LiteralNumbers, f \in NumberForms, ld \in LiteralLeads, tl \in LiteralTails :
       CallPriceCandidates([kind |-> "literal", value |-> n.value, form |-> f, lead |-> ld],
                           ld \o n[f] \o tl)
  \/ \E w \in BandWords, v \in BandValues :
       CallPriceCandidates([kind |-> "band", cr |-> w.cr, lac |-> w.lac, ask |-> w.ask,
                            m |-> v.m, d |-> v.d],
                           w.text \o v.text)
  \/ \E ld \in {"", "demand "}, z \in ZeroAmounts :
       CallPriceCandidates([kind |-> "zero", lead |-> ld], ld \o z)
  \/ \E k1 \in ScoreKeywords, p1 \in ScorePrices, j \in ScoreJoins,
          k2 \in ScoreKeywords, p2 \in ScorePrices :
       /\ p1 # p2
       /\ CallPriceCandidates(
            [kind |-> "score",
             first |-> ScoreMention(k1, p1, 0, TRUE),
             second |-> ScoreMention(k2, p2, Len(k1 \o p1.text \o j), FALSE),
             demand |-> KeywordAt("demand ", k1, k2, Len(k1 \o p1.text \o j)),
             price |-> KeywordAt("price ", k1, k2, Len(k1 \o p1.text \o j))],
            k1 \o p1.text \o j \o k2 \o p2.text)
  \/ Restart

SpecCandidates == Init /\ [][NextCandidates]_vars

\* the position i lies inside a plot mention of the text or at most 8
\* characters after its end
NearAnyMention(text, i) ==
  LET ms == matchAllI(text, plotCtxRe, 0)
  IN \E k \in 1..Len(ms) :
       (i >= ms[k].index /\ i <= ms[k].end) \/ (i > ms[k].end /\ i - ms[k].end <= 8)

\* C12: no match of the price pattern that starts inside a plot mention, or
\* at most 8 characters after the end of one, is among the candidates of
\* parsePrice, whatever matches came before it in the text.
C12_NearPlotSkipped ==
  (pc = "done" /\ op = "parsePrice" /\ arg.kind = "near") =>
    LET text == Chars(input)
        ms == matchAllI(text, priceRe, 0)
    IN \A k \in 1..Len(ms) :
         NearAnyMention(text, ms[k].index) =>
           \A c \in 1..Len(ret.cands) : ret.cands[c].raw # Str(Whole(text, ms[k]))

\* the first match of a text that lies near a mention (the mention's own
\* number) is skipped
C12_FirstNearSkipped ==
  (pc = "done" /\ op = "parsePrice" /\ arg.kind = "near") =>
    \A c \in 1..Len(ret.cands) :
      ret.cands[c].raw \notin {"45 ", "7 ", "123 "}

\* a price 1 character after a mention, the second match near it, is kept
C12_SecondNearKept ==
  /\ pc = "done" /\ op = "parsePrice" /\ arg.kind = "near"
  /\ input = "Plot 45 90 lac"
  /\ ret.amount = Num(9000000) /\ ret.text = "90 lac"

-----------------------------------------------------------------------------
(* The resolution order of society and phase/block *)

\* C13: the society is the dictionary's when it found one and the alias
\* table's otherwise; phase_block is the label of the dictionary's block when
\* it captured one, otherwise the alias table's phase/block when the table was
\* consulted (the dictionary found no society) and gave one, and the
\* heuristic's result only when both left it empty.
C13_ResolutionOrder ==
  (pc = "done" /\ op = "parseMessage" /\ arg.kind = "resolve") =>
    LET text == Chars(input)
        st == IF optStyle = "" THEN "title" ELSE optStyle
        dict == findSocietyFromDict(text, DEFAULT_SOC_DICT)
        alias == matchAliases(text, ResolveTables[arg.table])
    IN /\ out.society = Str(IF dict.society # <<>> THEN dict.society ELSE alias.society)
       /\ out.phase_block =
            Str(IF dict.block # <<>> THEN labelBlock(dict.block, st)
                ELSE IF dict.society = <<>> /\ alias.phase_block # <<>> THEN alias.phase_block
                ELSE parsePhaseBlock(text, st))

\* C13: the dictionary's society was kept where the alias table names another
C13_Witness ==
  /\ pc = "done" /\ op = "parseMessage" /\ arg.kind = "resolve" /\ arg.table = 1
  /\ input = "DHA LHR near Bahria P7 plot 5"
  /\ matchAliases(Chars(input), <<>>).society = Chars("Bahria Town Rawalpindi")
  /\ out.society = "DHA Lahore" /\ out.phase_block = ""

\* the alias table's phase was kept where the heuristic finds a block
C13_WitnessAliasPhase ==
  /\ pc = "done" /\ op = "parseMessage" /\ arg.kind = "resolve" /\ arg.table = 1
  /\ input = "BHT 7 block C plot 9"
  /\ parsePhaseBlock(Chars(input), "title") = Chars("Block C")
  /\ out.society = "Bahria Town Rawalpindi" /\ out.phase_block = "Phase 7"

\* the dictionary's block was kept where the heuristic finds another
C13_WitnessDictBlock ==
  /\ pc = "done" /\ op = "parseMessage" /\ arg.kind = "resolve"
  /\ input = "FHf block C plot 2" /\ optStyle = "letter"
  /\ parsePhaseBlock(Chars(input), "letter") = Chars("Block C")
  /\ out.society = "Faisal Hills" /\ out.phase_block = "F block"

-----------------------------------------------------------------------------
(* The plot-number cascade *)

\* a text names a series, a plot and a hash number, each or none of them, in
\* this order or in the reverse order; each phrase with the token it stands for
SeriesToken ==
  ("300 series" :> "300 series") @@ ("45-series" :> "45 series")
  @@ ("1200series" :> "1200 series")
PlotToken ==
  ("Plot 45" :> "45") @@ ("plot no 7A" :> "7A") @@ ("Plot # 123" :> "123")
  @@ ("plot#88" :> "88") @@ ("Plot num 9" :> "9")
HashToken == ("#12" :> "12") @@ ("# 9B" :> "9B")
PlotOrders == {"forward", "reverse"}

JoinPhrases(a, b, c) ==
  LET ab == IF a = "" THEN b ELSE IF b = "" THEN a ELSE a \o " " \o b
  IN IF ab = "" THEN c ELSE IF c = "" THEN ab ELSE ab \o " " \o c

NextPlot ==
  \/ \E sr \in DOMAIN SeriesToken \cup {""}, pl \in DOMAIN PlotToken \cup {""},
        hs \in DOMAIN HashToken \cup {""}, o \in PlotOrders :
       CallParseMessage([kind |-> "plot", series |-> sr, plot |-> pl, hash |-> hs, order |-> o],
                        IF o = "forward" THEN JoinPhrases(sr, pl, hs) ELSE JoinPhrases(hs, pl, sr),
                        "")
  \/ Restart

SpecPlot == Init /\ [][NextPlot]_vars

\* C14: plot_no is "<digits> series" when the text names a series; otherwise
\* the token after "plot" (with or without #, no or num) when it names a
\* plot; otherwise the token after "#" when it has one; otherwise the result
\* of the bare-number fallback.  A later strategy counts only when all
\* earlier ones found nothing, wherever the phrases stand in the text.
C14_PlotCascade ==
  (pc = "done" /\ op = "parseMessage" /\ arg.kind = "plot") =>
    out.plot_no = IF arg.series # "" THEN SeriesToken[arg.series]
                  ELSE IF arg.plot # "" THEN PlotToken[arg.plot]
                  ELSE IF arg.hash # "" THEN HashToken[arg.hash]
                  ELSE Str(extractBarePlotNumber(Chars(input)))

\* the cascade for the plot phrases other than "Plot num 9"
C14_CascadeWithoutNum ==
  (pc = "done" /\ op = "parseMessage" /\ arg.kind = "plot" /\ arg.plot # "Plot num 9") =>
    out.plot_no = IF arg.series # "" THEN SeriesToken[arg.series]
                  ELSE IF arg.plot # "" THEN PlotToken[arg.plot]
                  ELSE IF arg.hash # "" THEN HashToken[arg.hash]
                  ELSE Str(extractBarePlotNumber(Chars(input)))

\* "Plot num 9 #12": the plot phrase is passed over and the hash number is
\* returned
C14_NumPassedOver ==
  /\ pc = "done" /\ op = "parseMessage" /\ arg.kind = "plot"
  /\ input = "Plot num 9 #12"
  /\ out.plot_no = "12"

\* the two examples of the cascade
C14_SeriesBeforePlot ==
  /\ pc = "done" /\ op = "parseMessage" /\ arg.kind = "plot"
  /\ input = "300 series Plot 45"
  /\ out.plot_no = "300 series"
C14_PlotBeforeHash ==
  /\ pc = "done" /\ op = "parseMessage" /\ arg.kind = "plot"
  /\ input = "#12 Plot 45"
  /\ out.plot_no = "45"

\* C15: parsePrice returns the candidate with the highest score, and among
\* candidates of that score one with the largest amount; without a candidate
\* the amount is absent and the text is "".
C15_Selection ==
  (pc = "done" /\ op = "parsePrice" /\ arg.kind = "select") =>
    IF ret.cands = <<>> THEN ret.amount = Absent /\ ret.text = ""
    ELSE \E c \in 1..Len(ret.cands) :
           /\ ret.amount = Num(ret.cands[c].pkr)
           /\ ret.text = ret.cands[c].raw
           /\ \A d \in 1..Len(ret.cands) :
                \/ ret.cands[d].score < ret.cands[c].score
                \/ ret.cands[d].score = ret.cands[c].score /\ ret.cands[d].pkr <= ret.cands[c].pkr

\* C15: two candidates of the same score, the smaller amount first in the
\* text, and the larger amount was returned
C15_Witness ==
  /\ pc = "done" /\ op = "parsePrice" /\ arg.kind = "select"
  /\ input = "85 lac or 1.2 Cr"
  /\ Len(ret.cands) = 2
  /\ ret.cands[1].score = ret.cands[2].score
  /\ ret.amount = Num(12000000) /\ ret.text = "1.2 Cr"

\* the higher score wins over the larger amount
C15_WitnessScore ==
  /\ pc = "done" /\ op = "parsePrice" /\ arg.kind = "select"
  /\ input = "demand 85 lac or 2 cr"
  /\ Len(ret.cands) = 2
  /\ ret.cands[1].score > ret.cands[2].score
  /\ ret.amount = Num(8500000)

\* no candidate: the empty price
C15_WitnessNone ==
  /\ pc = "done" /\ op = "parsePrice" /\ arg.kind = "select"
  /\ input = "Plot 45"
  /\ ret = [amount |-> Absent, text |-> "", cands |-> <<>>]

\* C16: a number of at least 1,000,000 written without unit, in plain
\* digits, grouped by commas or grouped by periods, gives a candidate whose
\* amount is that number.
C16_LiteralAmount ==
  (pc = "done" /\ op = "parsePrice" /\ arg.kind = "literal") =>
    \E c \in 1..Len(ret.cands) : ret.cands[c].pkr = arg.value

\* the comma-grouped form alone: the number is the amount returned
C16_CommaGrouped ==
  (pc = "done" /\ op = "parsePrice" /\ arg.kind = "literal" /\ arg.form = "comma") =>
    /\ \E c \in 1..Len(ret.cands) : ret.cands[c].pkr = arg.value
    /\ ret.amount = Num(arg.value)

\* plain digits and period groups give no candidate when the text holds no
\* word that puts a part of them into a band
C16_PlainAndPeriodLost ==
  (pc = "done" /\ op = "parsePrice" /\ arg.kind = "literal" /\ arg.form # "comma"
     /\ arg.lead \in {"", "final "}) =>
    ret.cands = <<>>

\* "8500000" gives no candidate at all
C16_PlainDigitsNoPrice ==
  /\ pc = "done" /\ op = "parsePrice" /\ arg.kind = "literal"
  /\ input = "8500000"
  /\ ret = [amount |-> Absent, text |-> "", cands |-> <<>>]

-----------------------------------------------------------------------------
(* The bands of a number without unit, lines 237-243 *)

\* the value m / 10^d lies in [lo, hi]
InBand(m, d, lo, hi) == m >= lo * Pow10(d) /\ m <= hi * Pow10(d)

\* C17: a number v below 1,000,000 without unit becomes v x 10,000,000 if
\* 0.8 <= v <= 10 and "cr" occurs in the text; otherwise v x 100,000 if
\* 10 <= v <= 500 and "lac", "lakh" or "lacs" occurs; otherwise v x 100,000 if
\* 80 <= v <= 500 and "demand" or "asking" occurs; otherwise it gives no
\* candidate. An amount of 0 gives no candidate either.
C17_Bands ==
  /\ (pc = "done" /\ op = "parsePrice" /\ arg.kind = "band") =>
       LET crore == arg.cr /\ 10 * arg.m >= 8 * Pow10(arg.d) /\ InBand(arg.m, arg.d, 0, 10)
           lakh == \/ arg.lac /\ InBand(arg.m, arg.d, 10, 500)
                   \/ arg.ask /\ InBand(arg.m, arg.d, 80, 500)
       IN IF crore
          THEN Len(ret.cands) = 1 /\ ret.cands[1].pkr = arg.m * Pow10(7 - arg.d)
               /\ ret.amount = Num(arg.m * Pow10(7 - arg.d))
          ELSE IF lakh
          THEN Len(ret.cands) = 1 /\ ret.cands[1].pkr = arg.m * Pow10(5 - arg.d)
               /\ ret.amount = Num(arg.m * Pow10(5 - arg.d))
          ELSE ret.cands = <<>> /\ ret.amount = Absent
  /\ (pc = "done" /\ op = "parsePrice" /\ arg.kind = "zero") =>
       ret.cands = <<>> /\ ret.amount = Absent

\* 10 with both "cr" and a lakh word in the text is read as 10 crore
C17_Witness ==
  /\ pc = "done" /\ op = "parsePrice" /\ arg.kind = "band"
  /\ arg.m = 10 /\ arg.d = 0 /\ arg.cr /\ arg.lac
  /\ ret.amount = Num(100000000)

\* 80 after "demand" alone is read as 80 lakh
C17_WitnessAsking ==
  /\ pc = "done" /\ op = "parsePrice" /\ arg.kind = "band"
  /\ arg.m = 80 /\ ~arg.cr /\ ~arg.lac /\ arg.ask
  /\ ret.amount = Num(8000000)

\* 50 after "demand" alone lies in no band
C17_WitnessDiscarded ==
  /\ pc = "done" /\ op = "parsePrice" /\ arg.kind = "band"
  /\ arg.m = 50 /\ arg.d = 0 /\ ~arg.cr /\ ~arg.lac /\ arg.ask
  /\ ret.amount = Absent

\* an amount of 0 with a unit is discarded
C17_WitnessZero ==
  pc = "done" /\ op = "parsePrice" /\ arg.kind = "zero" /\ ret.amount = Absent

-----------------------------------------------------------------------------
(* The score of a candidate, lines 212-214 and 245-249, in hundredths *)

SetMin(S0) == CHOOSE x \in S0 : \A y \in S0 : x <= y
SetAbs(n) == IF n < 0 THEN -n ELSE n

\* the bonus of at most top hundredths for the keyword at position at
Bonus(top, idx, at) ==
  LET b == top - 2 * SetAbs(idx - at) IN IF b > 0 THEN b ELSE 0

\* the bonus for the nearest of the positions
NearestBonus(top, idx, positions) ==
  IF positions = {} THEN 0
  ELSE Bonus(top, idx, CHOOSE at \in positions :
                         \A o \in positions : SetAbs(idx - at) <= SetAbs(idx - o))

\* the bonus for the first of the positions
FirstBonus(top, idx, positions) ==
  IF positions = {} THEN 0 ELSE Bonus(top, idx, SetMin(positions))

\* every candidate is one of the two mentions of the text and its score is
\* what Expected gives for that mention
ScoresAre(Expected(_)) ==
  \A c \in 1..Len(ret.cands) :
    \E x \in {arg.first, arg.second} :
      ret.cands[c].raw = x.raw /\ ret.cands[c].score = Expected(x)

ScoreNearest(x) ==
  (IF x.unit THEN 300 ELSE 0)
  + NearestBonus(200, x.idx, arg.demand) + NearestBonus(100, x.idx, arg.price)
  - (IF ~x.unit /\ x.digits >= 4 THEN 50 ELSE 0)

ScoreFirst(x) ==
  (IF x.unit THEN 300 ELSE 0)
  + FirstBonus(200, x.idx, arg.demand) + FirstBonus(100, x.idx, arg.price)
  - (IF ~x.unit /\ x.strlen >= 4 THEN 50 ELSE 0)

\* C18: the score of a candidate is 3 if it carries a unit, plus a bonus of
\* at most 2 that decreases with the distance to the nearest "demand", plus a
\* bonus of at most 1 for the nearest "price", minus 0.5 if it carries no
\* unit and its numeral has 4 or more digits.
C18_Score ==
  (pc = "done" /\ op = "parsePrice" /\ arg.kind = "score") => ScoresAre(ScoreNearest)

\* the score as lines 212-214 and 245-249 compute it: the distance is taken
\* to the first "demand" and the first "price" of the text, and the penalty
\* looks at the length of String(num), the decimal point included
C18_ScoreFirstOccurrence ==
  (pc = "done" /\ op = "parsePrice" /\ arg.kind = "score") => ScoresAre(ScoreFirst)

\* a second "demand" right before the second price gives it less than the
\* full bonus, and the smaller amount after the first "demand" is returned
C18_SecondDemandIgnored ==
  /\ pc = "done" /\ op = "parsePrice" /\ arg.kind = "score"
  /\ input = "demand 85 lac or demand 2 cr"
  /\ Len(ret.cands) = 2
  /\ ret.cands[1].score = 500 /\ ret.cands[2].score < 500
  /\ ret.amount = Num(8500000)

\* 1.25 has three digits and is penalised all the same
C18_PointCounted ==
  /\ pc = "done" /\ op = "parsePrice" /\ arg.kind = "score"
  /\ input = "1.25 or 2 cr"
  /\ \E c \in 1..Len(ret.cands) : ret.cands[c].pkr = 12500000 /\ ret.cands[c].score = -50

-----------------------------------------------------------------------------
(* flags and notes of parseMessage, lines 176-184, 402-405 and 417-421 *)

\* a keyword phrase between a lead and a tail that may touch it
FlagLeads == {"", "5 marla ", "car", "non-"}
FlagPhrases ==
  {"corner", "Corner plot", "corners", "park facing", "Park-Facing", "parkfacing",
   "park  facing", "park face", "possession", "POSSESSION paid", "possessions",
   "corner park facing possession"}
FlagTails == {"", "s", " 85 lac", "_a"}

NextFlags ==
  \/ \E ld \in FlagLeads, ph \in FlagPhrases, tl \in FlagTails :
       CallParseMessage([kind |-> "flags", lead |-> ld, phrase |-> ph, tail |-> tl],
                        ld \o ph \o tl, "")
  \/ Restart

SpecFlags == Init /\ [][NextFlags]_vars

\* C19: flags.corner is true exactly when notes holds "Corner",
\* flags.possession exactly when notes holds "Possession" and flags.park
\* exactly when notes holds "Park facing".
C19_FlagsMatchNotes ==
  (pc = "done" /\ op = "parseMessage" /\ arg.kind = "flags") =>
    /\ out.flags.corner <=> Has(out.notes, "Corner")
    /\ out.flags.possession <=> Has(out.notes, "Possession")
    /\ out.flags.park <=> Has(out.notes, "Park facing")

\* corner and possession agree with the notes, and a "Park facing" note
\* comes with the park flag
C19_CornerPossessionAgree ==
  (pc = "done" /\ op = "parseMessage" /\ arg.kind = "flags") =>
    /\ out.flags.corner <=> Has(out.notes, "Corner")
    /\ out.flags.possession <=> Has(out.notes, "Possession")
    /\ Has(out.notes, "Park facing") => out.flags.park

\* the park flag without the note: the phrase inside a longer word
C19_ParkFlagWithoutNote ==
  /\ pc = "done" /\ op = "parseMessage" /\ arg.kind = "flags"
  /\ input = "carpark facing"
  /\ out.flags.park /\ out.notes = ""

\* flag and note together
C19_ParkFlagAndNote ==
  /\ pc = "done" /\ op = "parseMessage" /\ arg.kind = "flags"
  /\ input = "park facing"
  /\ out.flags.park /\ out.notes = "Park facing"

-----------------------------------------------------------------------------
(* parsePhaseBlock, lines 297-349, reached through parseMessage on texts  *)
(* that name no society                                                   *)

\* a token and the label it gets next to "block"
BlockTokens ==
  {[text |-> "f", label |-> "Block F"], [text |-> "G", label |-> "Block G"],
   [text |-> "overseas", label |-> "Overseas"], [text |-> "Ext", label |-> "Ext"],
   [text |-> "c1", label |-> "C1 Block"], [text |-> "plot", label |-> "Plot Block"],
   [text |-> "17", label |-> "17 Block"], [text |-> "DD", label |-> "Dd Block"]}
BlockWords == {"Block", "blk"}

\* a mention of a block: right and left are the labels of the tokens right
\* and left of the block word ("" when there is none), open tells on which
\* sides the block word ends the mention
BlockMentions ==
  {[text |-> "", right |-> "", left |-> "", open |-> {}, size |-> FALSE]}
  \cup {[text |-> w \o " " \o r.text, right |-> r.label, left |-> "", open |-> {"left"},
         size |-> FALSE] : w \in BlockWords, r \in BlockTokens}
  \cup {[text |-> l.text \o " " \o w, right |-> "", left |-> l.label, open |-> {"right"},
         size |-> FALSE] : w \in BlockWords, l \in BlockTokens}
  \cup {[text |-> l.text \o " Block " \o r.text, right |-> r.label, left |-> l.label,
         open |-> {}, size |-> FALSE] :
           l \in {x \in BlockTokens : x.text \in {"f", "overseas"}},
           r \in {x \in BlockTokens : x.text \in {"G", "c1"}}}
  \cup {[text |-> w \o " size 5", right |-> "", left |-> "", open |-> {"left"},
         size |-> FALSE] : w \in BlockWords}
  \cup {[text |-> "size " \o w, right |-> "", left |-> "", open |-> {"right"},
         size |-> TRUE] : w \in BlockWords}

\* a mention of a phase: its label, and the labels its first and its last
\* word get as tokens next to a block word
PhaseMentions ==
  {[text |-> "", label |-> "", first |-> "", last |-> ""],
   [text |-> "Phase 7", label |-> "Phase 7", first |-> "Phase Block", last |-> "7 Block"],
   [text |-> "phase IV", label |-> "Phase 4", first |-> "Phase Block", last |-> "Iv Block"],
   [text |-> "2 phase", label |-> "Phase 2", first |-> "2 Block", last |-> "Phase Block"]}
MentionOrders == {"block first", "phase first"}
MentionSeps == {", ", " "}

\* what the text was built from: the labels of the tokens that stand right
\* and left of the block word in the whole text, and the label of the phase
BlockPhaseArg(b, p, order, sep) ==
  LET touch == sep = " " /\ b.text # "" /\ p.text # ""
  IN [kind |-> "phase_block",
      right |-> IF touch /\ order = "block first" /\ "right" \in b.open THEN p.first
                ELSE b.right,
      left |-> IF b.size THEN ""
               ELSE IF touch /\ order = "phase first" /\ "left" \in b.open THEN p.last
               ELSE b.left,
      phase |-> p.label,
      block |-> b.text # "",
      sizeLeft |-> b.size]

BlockPhaseText(b, p, order, sep) ==
  IF b.text = "" THEN p.text
  ELSE IF p.text = "" THEN b.text
  ELSE IF order = "block first" THEN b.text \o sep \o p.text
  ELSE p.text \o sep \o b.text

NextPhaseBlock ==
  \/ \E b \in BlockMentions, p \in PhaseMentions, order \in MentionOrders, sep \in MentionSeps :
       CallParseMessage(BlockPhaseArg(b, p, order, sep), BlockPhaseText(b, p, order, sep), "")
  \/ Restart

SpecPhaseBlock == Init /\ [][NextPhaseBlock]_vars

C20_WitnessRightFirst ==
  /\ pc = "done" /\ op = "parseMessage" /\ arg.kind = "phase_block"
  /\ input = "f Block c1"
  /\ out.phase_block = "C1 Block"

\* "phase 7 block": the number of the phase is the token left of the block
C20_WitnessPhaseAsToken ==
  /\ pc = "done" /\ op = "parseMessage" /\ arg.kind = "phase_block"
  /\ input = "Phase 7 Block size 5"
  /\ out.phase_block = "7 Block"

\* no block token: the phase
C20_WitnessPhase ==
  /\ pc = "done" /\ op = "parseMessage" /\ arg.kind = "phase_block"
  /\ input = "phase IV" /\ out.phase_block = "Phase 4"

\* line 331 passes over the token "size" left of the block word as line 320
\* does right of it: the label is then that of the right token or the phase
C20_SizeLeftOfBlock ==
  (pc = "done" /\ op = "parseMessage" /\ arg.kind = "phase_block" /\ arg.sizeLeft) =>
    out.phase_block = (IF arg.right # "" THEN arg.right ELSE arg.phase)

-----------------------------------------------------------------------------
(* The phase number, lines 305-316 and 339-345, through parseMessage on *)
(* texts without a block mention                                        *)

\* a phase number as written and the decimal numeral n of its value
PhaseNumbers ==
  {[text |-> "I", n |-> "1", roman |-> TRUE], [text |-> "i", n |-> "1", roman |-> TRUE],
   [text |-> "II", n |-> "2", roman |-> TRUE], [text |-> "Ii", n |-> "2", roman |-> TRUE],
   [text |-> "iI", n |-> "2", roman |-> TRUE], [text |-> "ii", n |-> "2", roman |-> TRUE],
   [text |-> "III", n |-> "3", roman |-> TRUE], [text |-> "Iii", n |-> "3", roman |-> TRUE],
   [text |-> "iII", n |-> "3", roman |-> TRUE], [text |-> "iii", n |-> "3", roman |-> TRUE],
   [text |-> "IV", n |-> "4", roman |-> TRUE], [text |-> "Iv", n |-> "4", roman |-> TRUE],
   [text |-> "iV", n |-> "4", roman |-> TRUE], [text |-> "iv", n |-> "4", roman |-> TRUE],
   [text |-> "V", n |-> "5", roman |-> TRUE], [text |-> "v", n |-> "5", roman |-> TRUE],
   [text |-> "VI", n |-> "6", roman |-> TRUE], [text |-> "Vi", n |-> "6", roman |-> TRUE],
   [text |-> "vI", n |-> "6", roman |-> TRUE], [text |-> "vi", n |-> "6", roman |-> TRUE],
   [text |-> "VII", n |-> "7", roman |-> TRUE], [text |-> "Vii", n |-> "7", roman |-> TRUE],
   [text |-> "vII", n |-> "7", roman |-> TRUE], [text |-> "vii", n |-> "7", roman |-> TRUE],
   [text |-> "VIII", n |-> "8", roman |-> TRUE], [text |-> "Viii", n |-> "8", roman |-> TRUE],
   [text |-> "vIII", n |-> "8", roman |-> TRUE], [text |-> "viii", n |-> "8", roman |-> TRUE],
   [text |-> "IX", n |-> "9", roman |-> TRUE], [text |-> "Ix", n |-> "9", roman |-> TRUE],
   [text |-> "iX", n |-> "9", roman |-> TRUE], [text |-> "ix", n |-> "9", roman |-> TRUE],
   [text |-> "X", n |-> "10", roman |-> TRUE], [text |-> "x", n |-> "10", roman |-> TRUE],
   [text |-> "1", n |-> "1", roman |-> FALSE], [text |-> "7", n |-> "7", roman |-> FALSE],
   [text |-> "07", n |-> "7", roman |-> FALSE], [text |-> "10", n |-> "10", roman |-> FALSE],
   [text |-> "12", n |-> "12", roman |-> FALSE], [text |-> "100", n |-> "100", roman |-> FALSE],
   [text |-> "2024", n |-> "2024", roman |-> FALSE]}
PhaseWords == {"phase", "PHASE"}
PhaseForms == {"word number", "wordnumber", "number word"}
PhaseTails == {"", ", corner"}

PhaseText(w, x, form) ==
  IF form = "word number" THEN w \o " " \o x.text
  ELSE IF form = "wordnumber" THEN w \o x.text
  ELSE x.text \o " " \o w

NextPhase ==
  \/ \E w \in PhaseWords, x \in PhaseNumbers, form \in PhaseForms, tl \in PhaseTails :
       CallParseMessage([kind |-> "phase", n |-> x.n, roman |-> x.roman, written |-> x.text,
                         form |-> form],
                        PhaseText(w, x, form) \o tl, "")
  \/ Restart

SpecPhase == Init /\ [][NextPhase]_vars

\* C21: with no block mention, "phase <N>" and "<N> phase" give "Phase <N>"
\* for a decimal N, and "Phase <n>" for a roman numeral from I to X in any
\* letter case, n its decimal value.
C21_PhaseNumber ==
  (pc = "done" /\ op = "parseMessage" /\ arg.kind = "phase") =>
    out.phase_block = "Phase " \o arg.n

\* "viii phase" gives "Phase 8"
C21_Witness ==
  /\ pc = "done" /\ op = "parseMessage" /\ arg.kind = "phase"
  /\ arg.roman /\ arg.written = "viii" /\ arg.form = "number word"
  /\ out.phase_block = "Phase 8"

\* a subtractive numeral: "Phase IX" gives "Phase 9"
C21_WitnessSubtractive ==
  /\ pc = "done" /\ op = "parseMessage" /\ arg.kind = "phase"
  /\ input = "PHASE IX" /\ out.phase_block = "Phase 9"

\* a decimal number
C21_WitnessDecimal ==
  /\ pc = "done" /\ op = "parseMessage" /\ arg.kind = "phase"
  /\ input = "phase 7, corner" /\ out.phase_block = "Phase 7"

-----------------------------------------------------------------------------
(* Payments: POST /payments, lines 1140-1155, and the admin's approve and *)
(* reject, lines 1157-1188. Every SQL statement is one step; a handler    *)
(* may be overtaken by another between two of its awaits.                 *)

MaxPayments == 1
MaxRequests == 2

\* what a request to an admin route carries: a token requireAuth accepts,
\* the X-Admin-Secret of the environment, a user with is_admin
AdminCredentials ==
  {[token |-> TRUE, secret |-> TRUE, admin |-> TRUE],
   [token |-> TRUE, secret |-> FALSE, admin |-> TRUE],
   [token |-> TRUE, secret |-> FALSE, admin |-> FALSE],
   [token |-> FALSE, secret |-> TRUE, admin |-> TRUE]}

\* the value the route writes, lines 1167 and 1183
VerdictOf(route) == IF route = "approve" THEN "approved" ELSE "rejected"

\* POST /payments: insert ... verification_status 'pending', lines 1149-1154
PostPayment ==
  /\ Len(payments) < MaxPayments
  /\ payments' = Append(payments, "pending")
  /\ UNCHANGED <<pc, op, arg, input, optStyle, out, ret, phoneReLastIndex, priceReLastIndex,
                 plotCtxLastIndex, memo, ncalls, user_devices, otps, reqs>>

\* a request to /admin/payments/:id/approve or .../reject arrives
ReceiveAdmin(route, id, cred) ==
  /\ Len(reqs) < MaxRequests
  /\ reqs' = Append(reqs, [route |-> route, id |-> id, cred |-> cred, at |-> "received",
                           status |-> 0, changed |-> 0])
  /\ UNCHANGED <<pc, op, arg, input, optStyle, out, ret, phoneReLastIndex, priceReLastIndex,
                 plotCtxLastIndex, memo, ncalls, payments, user_devices, otps>>

\* requireAuth and requireAdmin, lines 654-680: the status they answer
\* with, 0 when they call next()
AdminGate(cred) ==
  IF ~cred.token THEN 401
  ELSE IF cred.secret \/ cred.admin THEN 0
  ELSE 403

\* the middleware of request r runs
Middleware(r) ==
  /\ r \in DOMAIN reqs
  /\ reqs[r].at = "received"
  /\ reqs[r].route \in {"approve", "reject"}
  /\ reqs' = [reqs EXCEPT ![r].at = IF AdminGate(reqs[r].cred) = 0 THEN "handler" ELSE "done",
                           ![r].status = AdminGate(reqs[r].cred)]
  /\ UNCHANGED <<pc, op, arg, input, optStyle, out, ret, phoneReLastIndex, priceReLastIndex,
                 plotCtxLastIndex, memo, ncalls, payments, user_devices, otps>>

\* variant: the row is written whatever its status
UpdatePendingAnyStatus(table, id, to) ==
  IF id \in DOMAIN table
  THEN [table |-> [table EXCEPT ![id] = to], rowCount |-> 1]
  ELSE [table |-> table, rowCount |-> 0]

\* update payments set verification_status = to where id = $1 and
\* verification_status = 'pending', lines 1165-1170 and 1181-1186
UpdatePending(table, id, to) ==
  IF id \in DOMAIN table /\ table[id] = "pending"
  THEN [table |-> [table EXCEPT ![id] = to], rowCount |-> 1]
  ELSE [table |-> table, rowCount |-> 0]

\* the handler's answer with what the update left
AnswerChanged(r, u) ==
  /\ payments' = u.table
  /\ reqs' = [reqs EXCEPT ![r].at = "done", ![r].status = 200, ![r].changed = u.rowCount]

\* the handler of request r, lines 1159-1172 and 1175-1188
HandlePayment(r) ==
  /\ r \in DOMAIN reqs
  /\ reqs[r].at = "handler"
  /\ reqs[r].route \in {"approve", "reject"}
  /\ IF ~reqs[r].cred.secret
     THEN /\ reqs' = [reqs EXCEPT ![r].at = "done", ![r].status = 401]
          /\ UNCHANGED payments
     ELSE AnswerChanged(r, UpdatePending(payments, reqs[r].id, VerdictOf(reqs[r].route)))
  /\ UNCHANGED <<pc, op, arg, input, optStyle, out, ret, phoneReLastIndex, priceReLastIndex,
                 plotCtxLastIndex, memo, ncalls, user_devices, otps>>

NextPayments ==
  \/ PostPayment
  \/ \E route \in {"approve", "reject"}, id \in 1..MaxPayments, cred \in AdminCredentials :
       ReceiveAdmin(route, id, cred)
  \/ \E r \in 1..MaxRequests : Middleware(r)
  \/ \E r \in 1..MaxRequests : HandlePayment(r)

SpecPayments == Init /\ [][NextPayments]_vars

\* the requests that changed the row of payment p
Effective(p) ==
  {r \in DOMAIN reqs : reqs[r].route \in {"approve", "reject"} /\ reqs[r].id = p
                         /\ reqs[r].changed = 1}

\* a pending payment was changed by no request, any other by exactly one,
\* whose verdict it carries
OneEffectiveRequest ==
  \A p \in DOMAIN payments :
    IF payments[p] = "pending" THEN Effective(p) = {}
    ELSE /\ Cardinality(Effective(p)) = 1
         /\ \A r \in Effective(p) : payments[p] = VerdictOf(reqs[r].route)

\* a status changes only from pending, to approved or to rejected
OneWayStep ==
  \A p \in DOMAIN payments :
    payments'[p] # payments[p] =>
      payments[p] = "pending" /\ payments'[p] \in {"approved", "rejected"}

\* C22: verification_status changes only from 'pending' to 'approved' or
\* 'rejected'; under any interleaving of approve and reject requests for a
\* payment exactly one request changes the row (changed = 1), every other
\* reports changed = 0 and leaves the status as it is.
C22_OneWayAtMostOnce == []OneEffectiveRequest /\ [][OneWayStep]_vars

\* payment 1 is approved and a reject that came to its handler while the
\* payment was still pending has answered changed = 0
C22_Witness ==
  /\ Len(payments) >= 1 /\ payments[1] = "approved"
  /\ \E a, b \in DOMAIN reqs :
       /\ reqs[a].route = "approve" /\ reqs[a].id = 1 /\ reqs[a].changed = 1
       /\ reqs[b].route = "reject" /\ reqs[b].id = 1 /\ b < a
       /\ reqs[b].at = "done" /\ reqs[b].status = 200 /\ reqs[b].changed = 0

\* approve is idempotent: a second approve answers changed = 0
C22_WitnessIdempotent ==
  /\ Len(payments) >= 1 /\ payments[1] = "approved"
  /\ \E a, b \in DOMAIN reqs :
       /\ a # b /\ reqs[a].route = "approve" /\ reqs[b].route = "approve"
       /\ reqs[a].id = 1 /\ reqs[b].id = 1
       /\ reqs[a].changed = 1 /\ reqs[b].status = 200 /\ reqs[b].changed = 0

-----------------------------------------------------------------------------
(* The bare-number fallback, lines 188-205 and 383-386, through parseMessage *)

\* standalone numbers of 2 to 4 digits between a lead and a tail, after an
\* optional mention of a plot by one of the three strategies
BareLeads == {"", "house ", "corner, "}
BareNumbers == {"45", "123", "1234", "12 and 3456", "(77)"}
BareTails == {"", " urgent", "."}
BareMentions ==
  {[strategy |-> "none", text |-> ""], [strategy |-> "series", text |-> "300 series "],
   [strategy |-> "plot", text |-> "Plot 7 "], [strategy |-> "hash", text |-> "#8 "]}

NextBare ==
  \/ \E mn \in BareMentions, ld \in BareLeads, n \in BareNumbers, tl \in BareTails :
       CallParseMessage([kind |-> "bare", strategy |-> mn.strategy, number |-> n],
                        mn.text \o ld \o n \o tl, "")
  \/ Restart

SpecBare == Init /\ [][NextBare]_vars

C23_WitnessStrategy ==
  /\ pc = "done" /\ op = "parseMessage" /\ arg.kind = "bare"
  /\ input = "Plot 7 house 1234" /\ out.plot_no = "7"

-----------------------------------------------------------------------------
(* phone_e164 of parseMessage, lines 165, 398 and 415, and toE164 applied *)
(* to its own result, lines 75-82                                        *)

\* a phone as written and the ten national digits of it the phone pattern
\* takes ("" when the pattern does not match)
PhoneForms ==
  {[text |-> "03451234567", national |-> "3451234567"],
   [text |-> "0345-1234567", national |-> "3451234567"],
   [text |-> "0345 1234567", national |-> "3451234567"],
   [text |-> "+923451234567", national |-> "3451234567"],
   [text |-> "923001112223", national |-> "3001112223"],
   [text |-> "+92300-1112223", national |-> "3001112223"],
   [text |-> "00923001112223", national |-> "3001112223"],
   [text |-> "+92 3001112223", national |-> ""],
   [text |-> "034512345678", national |-> "3451234567"],
   [text |-> "0345123456", national |-> ""],
   [text |-> "3451234567", national |-> ""],
   [text |-> "051-1234567", national |-> ""],
   [text |-> "0345--1234567", national |-> ""],
   [text |-> "", national |-> ""]}
PhoneTextLeads == {"", "call ", "Plot 45 demand 90 lac "}
PhoneTextTails == {"", " whatsapp", " ext 12"}
\* a second phone after the first
SecondPhones == {"", " or 03219876543"}

\* toE164 is applied to the result of the last call
ApplyAgain ==
  /\ pc = "done"
  /\ op \in {"toE164", "parseMessage"}
  /\ ncalls < MaxCalls
  /\ LET prev == IF op = "toE164" THEN ret ELSE out.phone_e164
     IN /\ ret' = Str(toE164(Chars(prev)))
        /\ arg' = [kind |-> "again", prev |-> prev]
        /\ input' = prev
  /\ op' = "toE164"
  /\ ncalls' = ncalls + 1
  /\ UNCHANGED server
  /\ UNCHANGED <<pc, optStyle, out, phoneReLastIndex, priceReLastIndex, plotCtxLastIndex, memo>>

NextPhone ==
  \/ \E ld \in PhoneTextLeads, f \in PhoneForms, sp \in SecondPhones, tl \in PhoneTextTails :
       CallParseMessage([kind |-> "phone",
                         national |-> IF f.national # "" THEN f.national
                                      ELSE IF sp # "" THEN "3219876543" ELSE ""],
                        ld \o f.text \o sp \o tl, "")
  \/ \E d \in PhoneDigits, w \in PhoneStyles :
       CallToE164([kind |-> "digits", digits |-> d, style |-> w], WritePhone(d, w))
  \/ ApplyAgain
  \/ Restart

SpecPhone == Init /\ [][NextPhone]_vars

\* "+92" followed by ten digits of which the first is 3
IsMobileE164(str) ==
  /\ Len(str) = 13
  /\ SubSeq(str, 1, 4) = "+923"
  /\ \A i \in 5..13 : SubSeq(str, i, i) \in {"0", "1", "2", "3", "4", "5", "6", "7", "8", "9"}

\* C24: phone_e164 of parseMessage is "" when the text holds no mobile
\* pattern and otherwise "+92" followed by the ten digits, the first a 3, of
\* the first match of the phone pattern; and toE164 applied to a result of
\* toE164 returns it unchanged.
C24_PhoneE164 ==
  /\ (pc = "done" /\ op = "parseMessage" /\ arg.kind = "phone") =>
       /\ out.phone_e164 = (IF arg.national = "" THEN "" ELSE "+92" \o arg.national)
       /\ out.phone_e164 # "" => IsMobileE164(out.phone_e164)
  /\ (pc = "done" /\ op = "toE164" /\ arg.kind = "again") => ret = arg.prev

\* the first of two phones, normalised
C24_Witness ==
  /\ pc = "done" /\ op = "parseMessage" /\ arg.kind = "phone"
  /\ input = "call 0345-1234567 or 03219876543"
  /\ out.phone_e164 = "+923451234567"

\* toE164 applied to the phone_e164 of a parseMessage call
C24_WitnessAgain ==
  /\ pc = "done" /\ op = "toE164" /\ arg.kind = "again"
  /\ arg.prev = "+923451234567" /\ ret = "+923451234567"
  /\ out # NoResult

\* toE164 applied to a result that is no mobile number
C24_WitnessAgainOther ==
  /\ pc = "done" /\ op = "toE164" /\ arg.kind = "again"
  /\ arg.prev = "+4345" /\ ret = "+4345"

\* no mobile pattern: the empty string
C24_WitnessNone ==
  /\ pc = "done" /\ op = "parseMessage" /\ arg.kind = "phone"
  /\ input = "call 051-1234567" /\ out.phone_e164 = ""

-----------------------------------------------------------------------------
(* Devices: POST /auth/verify, lines 773-821, with upsertDeviceOnLogin,    *)
(* lines 582-631, and the admin's device reset, lines 1332-1342. Every     *)
(* awaited query is one step; handlers of different requests interleave    *)
(* between their steps.                                                    *)

MaxLogins == 2
Users == {1}
DeviceIds == {"A", "B"}
DeviceTypes == {"mobile", "desktop"}

\* POST /auth/signup issues a code for the user's email, lines 751-756
IssueOtp(u) ==
  /\ u \notin otps
  /\ otps' = otps \cup {u}
  /\ UNCHANGED <<pc, op, arg, input, optStyle, out, ret, phoneReLastIndex, priceReLastIndex,
                 plotCtxLastIndex, memo, ncalls, payments, user_devices, reqs>>

\* a request to /auth/verify arrives with the headers X-Device-Id,
\* X-Device-Type and X-Replace-Device, lines 789-794
ReceiveVerify(u, d, ty, rep) ==
  /\ Len(reqs) < MaxLogins
  /\ reqs' = Append(reqs, [route |-> "verify", user |-> u, device_id |-> d, device_type |-> ty,
                           replace |-> rep, at |-> "otp", status |-> 0, current |-> 0])
  /\ UNCHANGED <<pc, op, arg, input, optStyle, out, ret, phoneReLastIndex, priceReLastIndex,
                 plotCtxLastIndex, memo, ncalls, payments, user_devices, otps>>

\* lines 777-786: the code is looked up; 400 when there is none
CheckOtp(r) ==
  /\ r \in DOMAIN reqs
  /\ reqs[r].route = "verify" /\ reqs[r].at = "otp"
  /\ reqs' = IF reqs[r].user \in otps
             THEN [reqs EXCEPT ![r].at = "select"]
             ELSE [reqs EXCEPT ![r].at = "done", ![r].status = 400]
  /\ UNCHANGED <<pc, op, arg, input, optStyle, out, ret, phoneReLastIndex, priceReLastIndex,
                 plotCtxLastIndex, memo, ncalls, payments, user_devices, otps>>

\* the ids of the active rows of a user and a device type, lines 585-591
ActiveRows(table, u, ty) ==
  {i \in DOMAIN table : table[i].user_id = u /\ table[i].device_type = ty
                         /\ table[i].status = "active"}

\* lines 584-592: the select; limit 1 without order takes any of the rows
SelectActive(r) ==
  /\ r \in DOMAIN reqs
  /\ reqs[r].route = "verify" /\ reqs[r].at = "select"
  /\ LET found == ActiveRows(user_devices, reqs[r].user, reqs[r].device_type)
     IN IF found = {} THEN reqs' = [reqs EXCEPT ![r].at = "upsert", ![r].current = 0]
        ELSE \E i \in found : reqs' = [reqs EXCEPT ![r].at = "upsert", ![r].current = i]
  /\ UNCHANGED <<pc, op, arg, input, optStyle, out, ret, phoneReLastIndex, priceReLastIndex,
                 plotCtxLastIndex, memo, ncalls, payments, user_devices, otps>>

\* the row of lines 596-598 and 627-629; status is 'active' by the column's
\* default, which the select of line 589 relies on
NewDevice(q) ==
  [user_id |-> q.user, device_id |-> q.device_id, device_type |-> q.device_type,
   status |-> "active"]

\* lines 616-622: another device of the type is active and replace is not
\* set, device_limit is thrown
DeviceLimit(q, table) ==
  q.current # 0 /\ table[q.current].device_id # q.device_id /\ ~q.replace

\* lines 594-625: what follows the select, up to the next awaited query
Upsert(r) ==
  /\ r \in DOMAIN reqs
  /\ reqs[r].route = "verify" /\ reqs[r].at = "upsert"
  /\ LET q == reqs[r]
     IN IF q.current = 0
        THEN /\ user_devices' = Append(user_devices, NewDevice(q))
             /\ reqs' = [reqs EXCEPT ![r].at = "delete"]
        ELSE IF user_devices[q.current].device_id = q.device_id
        THEN /\ UNCHANGED user_devices            \* last_seen_at, ua, ip
             /\ reqs' = [reqs EXCEPT ![r].at = "delete"]
        ELSE IF DeviceLimit(q, user_devices)
        THEN /\ UNCHANGED user_devices
             /\ reqs' = [reqs EXCEPT ![r].at = "done", ![r].status = 403]
        ELSE /\ user_devices' = [user_devices EXCEPT ![q.current].status = "revoked"]
             /\ reqs' = [reqs EXCEPT ![r].at = "insert"]
  /\ UNCHANGED <<pc, op, arg, input, optStyle, out, ret, phoneReLastIndex, priceReLastIndex,
                 plotCtxLastIndex, memo, ncalls, payments, otps>>

\* lines 626-630: the insert after the old device was revoked
InsertReplacement(r) ==
  /\ r \in DOMAIN reqs
  /\ reqs[r].route = "verify" /\ reqs[r].at = "insert"
  /\ user_devices' = Append(user_devices, NewDevice(reqs[r]))
  /\ reqs' = [reqs EXCEPT ![r].at = "delete"]
  /\ UNCHANGED <<pc, op, arg, input, optStyle, out, ret, phoneReLastIndex, priceReLastIndex,
                 plotCtxLastIndex, memo, ncalls, payments, otps>>

\* lines 815-819: the code is deleted and the token sent
FinishVerify(r) ==
  /\ r \in DOMAIN reqs
  /\ reqs[r].route = "verify" /\ reqs[r].at = "delete"
  /\ otps' = otps \ {reqs[r].user}
  /\ reqs' = [reqs EXCEPT ![r].at = "done", ![r].status = 200]
  /\ UNCHANGED <<pc, op, arg, input, optStyle, out, ret, phoneReLastIndex, priceReLastIndex,
                 plotCtxLastIndex, memo, ncalls, payments, user_devices>>

\* POST /admin/users/:id/devices/reset by an admin, lines 1335-1340
ResetDevices(u) ==
  /\ \E i \in DOMAIN user_devices : user_devices[i].user_id = u /\ user_devices[i].status = "active"
  /\ user_devices' = [i \in DOMAIN user_devices |->
                        IF user_devices[i].user_id = u /\ user_devices[i].status = "active"
                        THEN [user_devices[i] EXCEPT !.status = "revoked"]
                        ELSE user_devices[i]]
  /\ UNCHANGED <<pc, op, arg, input, optStyle, out, ret, phoneReLastIndex, priceReLastIndex,
                 plotCtxLastIndex, memo, ncalls, payments, otps, reqs>>

\* no login is between its first and its last step
NoLoginRunning == \A r \in DOMAIN reqs : reqs[r].at = "done"

NextDevices ==
  \/ \E u \in Users : IssueOtp(u)
  \/ \E u \in Users, d \in DeviceIds, ty \in DeviceTypes, rep \in BOOLEAN :
       ReceiveVerify(u, d, ty, rep)
  \/ \E r \in 1..MaxLogins : CheckOtp(r)
  \/ \E r \in 1..MaxLogins : SelectActive(r)
  \/ \E r \in 1..MaxLogins : Upsert(r)
  \/ \E r \in 1..MaxLogins : InsertReplacement(r)
  \/ \E r \in 1..MaxLogins : FinishVerify(r)
  \/ \E u \in Users : ResetDevices(u)

SpecDevices == Init /\ [][NextDevices]_vars

\* the same steps, a request arriving only when no login is running
NextDevicesSerial ==
  \/ \E u \in Users : IssueOtp(u)
  \/ \E u \in Users, d \in DeviceIds, ty \in DeviceTypes, rep \in BOOLEAN :
       NoLoginRunning /\ ReceiveVerify(u, d, ty, rep)
  \/ \E r \in 1..MaxLogins : CheckOtp(r)
  \/ \E r \in 1..MaxLogins : SelectActive(r)
  \/ \E r \in 1..MaxLogins : Upsert(r)
  \/ \E r \in 1..MaxLogins : InsertReplacement(r)
  \/ \E r \in 1..MaxLogins : FinishVerify(r)
  \/ \E u \in Users : NoLoginRunning /\ ResetDevices(u)

SpecDevicesSerial == Init /\ [][NextDevicesSerial]_vars

\* C25: under any interleaving of logins through /auth/verify and device
\* resets, a user has at most one active user_devices row per device type.
C25_OneActivePerType ==
  \A u \in Users, ty \in DeviceTypes : Cardinality(ActiveRows(user_devices, u, ty)) <= 1

\* two logins of devices A and B that both found no active row: two active
\* mobile rows
C25_TwoActive ==
  /\ Len(user_devices) = 2
  /\ user_devices[1] = [user_id |-> 1, device_id |-> "A", device_type |-> "mobile",
                        status |-> "active"]
  /\ user_devices[2] = [user_id |-> 1, device_id |-> "B", device_type |-> "mobile",
                        status |-> "active"]

\* two logins of the same device: a second row for it
C25_SameDeviceTwice ==
  /\ Len(user_devices) = 2
  /\ user_devices[1] = user_devices[2]
  /\ user_devices[1].status = "active"

\* a login that answers 403 or finds its own device active leaves the table
\* as it found it, and a replacing login revokes before it inserts; these
\* parts hold under every interleaving
C25_RejectedAddsNoRow ==
  \A r \in DOMAIN reqs :
    (reqs[r].at = "done" /\ reqs[r].status = 403) =>
      /\ ~reqs[r].replace
      /\ reqs[r].current # 0
      /\ user_devices[reqs[r].current].device_id # reqs[r].device_id

\* a replacing login has revoked the active device B and made A active
C25_Replaced ==
  /\ Len(user_devices) = 2
  /\ user_devices[1].device_id = "B" /\ user_devices[1].status = "revoked"
  /\ user_devices[2].device_id = "A" /\ user_devices[2].status = "active"
  /\ user_devices[1].device_type = user_devices[2].device_type

====
